---- MODULE Spec2Model ----
(***************************************************************************)
(* Trajectory statistics of TRM_MAPF: src/src/praw/stats_wait_collision.py *)
(*                                                                         *)
(* One run of compute_wait_collision_heatmaps followed by                  *)
(* summarize_run_metrics, as the orchestrator                              *)
(* (src/scripts/02_run_pypibt_collect.py) calls them.  The inputs of a run *)
(* (obstacle mask, time-major trajectory, goal list) are drawn in Init;    *)
(* the two loops of the heatmap computation advance one (t, agent)         *)
(* iteration per step.                                                     *)
(*                                                                         *)
(* Arrays are indexed as in the source, <<y, x>> (row, column); positions  *)
(* and goals are <<x, y>> as in the source's XY tuples.  Sequences are     *)
(* 1-based: paths[t + 1][i + 1] is the source's paths[t][i].               *)
(***************************************************************************)
EXTENDS Integers, Sequences, FiniteSets, TLC

\* ------------------------------------------------------------------ bounds
GridW == 3
GridH == 2
MaxT == 3
MaxN == 2
MaxObst == 2
MaxLines == 3       \* lines of a trajectory text
MaxStamp == 2       \* largest timestep value a line carries
MaxPairs == 2       \* most (x,y) pairs on a line
MaxRuns == 2        \* instance_*.npz files of one map
MaxDim == 2         \* largest height and width of an exported field

\* ------------------------------------------------------- program constants
INF == 1000000000
RC_TIMEOUT == 124
HeaderLines == 10   \* lines of a map file the exporter reads

VARIABLES
    \* ---- one run of compute_wait_collision_heatmaps + summarize_run_metrics
    H,              \* grid height, as passed to compute_wait_collision_heatmaps
    W,              \* grid width
    obstacles,      \* H x W mask, obstacles[<<y, x>>] = 1 means blocked
    paths,          \* time-major trajectory, paths[t][i] = <<x, y>>
    goals,          \* goals[i] = <<x, y>>
    pc,             \* position of the run
    err,            \* the ValueError raised, or "none"
    reach_t,        \* _first_reach_times(paths, goals)
    dist_cache,     \* goal -> _bfs_dist(obstacles, goal)
    wait_map,
    collision_map,
    occupancy_map,
    total_wait,
    total_blocked,
    t,              \* loop variable of the running loop (0-based)
    i,              \* loop variable of the running loop (0-based)
    details,
    metrics,
    \* ---- one call of parse_output_txt
    lines,          \* the text, split into lines
    expected_num_agents,    \* <<>> for None, <<n>> for the int n
    ln,             \* number of lines the for loop has consumed
    timesteps,
    pos_by_t,
    parse_pc,       \* position of the call
    parse_err,      \* the ValueError raised (kind "none": none)
    parsed,         \* the dictionary returned
    \* ---- one run of the aggregator, 03_aggregate_p_raw.py main
    npz_files,      \* the sorted instance_*.npz with their .meta.json sidecars
    args,           \* only_solved, alpha, beta, log1p
    agg_pc,         \* position of the run
    agg_err,        \* the exception raised, or "none"
    fk,             \* number of files the for loop has consumed
    acc,            \* H, W, wait_sum, pressure_sum, occ_sum, obstacles
    makespans,
    used,
    solved_cnt,
    out,            \* the files written to out_dir
    \* ---- a second run of compute_wait_collision_heatmaps on the same grid
    parked,         \* its frame while the other run executes (<<>>: none)
    \* ---- one call of _bfs_dist, one iteration of its while loop per step
    bfs_obstacles,
    bfs_goal,
    bfs,            \* the locals dist and q
    bfs_pc,
    \* ---- one call of export_one, 04_export_heatmap_bin.py
    npy,            \* the array file at npy_path
    map_file,       \* the file at map_path (<<>>: no such file)
    dest,           \* heatmap.f32.bin and heatmap.meta.json in out_dir
    exp_p,          \* the local p
    map_dims,       \* the local map_dims (<<>>: None)
    exp_pc,         \* position of the call
    exp_err         \* the exception raised, or "none"

heatVars == <<H, W, obstacles, paths, goals, pc, err, reach_t, dist_cache,
              wait_map, collision_map, occupancy_map, total_wait,
              total_blocked, t, i, details, metrics>>

parseVars == <<lines, expected_num_agents, ln, timesteps, pos_by_t, parse_pc,
               parse_err, parsed>>

aggVars == <<npz_files, args, agg_pc, agg_err, fk, acc, makespans, used,
             solved_cnt, out>>

parkVars == <<parked>>

bfsVars == <<bfs_obstacles, bfs_goal, bfs, bfs_pc>>

expVars == <<npy, map_file, dest, exp_p, map_dims, exp_pc, exp_err>>

vars == <<heatVars, parseVars, aggVars, parkVars, bfsVars, expVars>>

\* ----------------------------------------------------------------- helpers
\* The index space <<y, x>> of an array of shape (h, w).
Index(h, w) == (0 .. h - 1) \X (0 .. w - 1)

\* a.shape of a two-dimensional array
ShapeH(a) == Cardinality({c[1] : c \in DOMAIN a})
ShapeW(a) == Cardinality({c[2] : c \in DOMAIN a})

InBounds(x, y) == 0 <= x /\ x < W /\ 0 <= y /\ y < H

\* np.zeros((H, W))
Zeros(h, w) == [c \in Index(h, w) |-> 0]

\* int(np.sum(m))
RECURSIVE SumOver(_, _)
SumOver(m, S) ==
    IF S = {} THEN 0
    ELSE LET c == CHOOSE c \in S : TRUE IN m[c] + SumOver(m, S \ {c})

NpSum(m) == SumOver(m, DOMAIN m)

\* numpy's m[y, x] += 1: a negative index counts from the end of its axis
NpIdx(k, n) == IF k < 0 THEN k + n ELSE k

NpIncr(m, y, x) ==
    LET c == <<NpIdx(y, ShapeH(m)), NpIdx(x, ShapeW(m))>>
    IN  IF c \in DOMAIN m THEN [m EXCEPT ![c] = @ + 1] ELSE m

\* ------------------------------------------------------ _bfs_dist (59-88)
\* Fault variant of BfsRelax: the obstacle test is missing.
BfsRelax_through_obstacles(obs, st, inb, nx, ny, d) ==
    IF inb /\ st.dist[<<ny, nx>>] > d
    THEN [dist |-> [st.dist EXCEPT ![<<ny, nx>>] = d],
          q    |-> Append(st.q, <<nx, ny>>)]
    ELSE st

\* Fault variant of BfsRelax: any stored distance other than d is overwritten.
BfsRelax_any_distance(obs, st, inb, nx, ny, d) ==
    IF inb /\ obs[<<ny, nx>>] = 0 /\ st.dist[<<ny, nx>>] # d
    THEN [dist |-> [st.dist EXCEPT ![<<ny, nx>>] = d],
          q    |-> Append(st.q, <<nx, ny>>)]
    ELSE st

\* One conditional of the while body: the neighbour <<nx, ny>> is assigned
\* d and enqueued when inb (the source's bounds test for that direction)
\* holds, it is no obstacle and its stored distance exceeds d.
BfsRelax(obs, st, inb, nx, ny, d) ==
    IF inb /\ obs[<<ny, nx>>] = 0 /\ st.dist[<<ny, nx>>] > d
    THEN [dist |-> [st.dist EXCEPT ![<<ny, nx>>] = d],
          q    |-> Append(st.q, <<nx, ny>>)]
    ELSE st

\* One iteration of "while q": popleft, then left, right, up, down.
BfsStep(obs, st) ==
    LET bH == ShapeH(obs)
        bW == ShapeW(obs)
        x  == Head(st.q)[1]
        y  == Head(st.q)[2]
        d  == st.dist[<<y, x>>] + 1
        s0 == [dist |-> st.dist, q |-> Tail(st.q)]
        s1 == BfsRelax(obs, s0, x > 0, x - 1, y, d)
        s2 == BfsRelax(obs, s1, x + 1 < bW, x + 1, y, d)
        s3 == BfsRelax(obs, s2, y > 0, x, y - 1, d)
        s4 == BfsRelax(obs, s3, y + 1 < bH, x, y + 1, d)
    IN  s4

RECURSIVE BfsLoop(_, _)
BfsLoop(obs, st) ==
    IF st.q = <<>> THEN st.dist ELSE BfsLoop(obs, BfsStep(obs, st))

\* np.full((H, W), INF), with H, W = obstacles.shape
InfField(obs) == [c \in DOMAIN obs |-> INF]

\* Lines 70-88: the search rooted at an in-bounds, free goal.
BfsFrom(obs, goal) ==
    BfsLoop(obs, [dist |-> [InfField(obs) EXCEPT ![<<goal[2], goal[1]>>] = 0],
                  q    |-> <<goal>>])

\* Fault variant of bfs_dist: the early return for a goal on an obstacle
\* (lines 67-68) is missing.
bfs_dist_obstacle_goal(obs, goal) ==
    LET gx == goal[1]
        gy == goal[2]
    IN  IF ~(0 <= gx /\ gx < ShapeW(obs) /\ 0 <= gy /\ gy < ShapeH(obs))
        THEN InfField(obs)
        ELSE BfsFrom(obs, goal)

bfs_dist(obs, goal) ==
    LET gx == goal[1]
        gy == goal[2]
    IN  IF ~(0 <= gx /\ gx < ShapeW(obs) /\ 0 <= gy /\ gy < ShapeH(obs))
        THEN InfField(obs)
        ELSE IF obs[<<gy, gx>>] # 0 THEN InfField(obs)
        ELSE BfsFrom(obs, goal)

\* --------------------------------------------- _first_reach_times (91-103)
\* The inner loop for agent i (1-based here), from timestep k (1-based) on:
\* the first k with paths[k][i] = goals[i], as a 0-based time, else inf.
RECURSIVE ReachScan(_, _, _, _)
ReachScan(ps, gs, ag, k) ==
    IF k > Len(ps) THEN INF
    ELSE IF ps[k][ag] = gs[ag] THEN k - 1
    ELSE ReachScan(ps, gs, ag, k + 1)

first_reach_times(ps, gs) ==
    LET N == IF Len(ps) > 0 THEN Len(ps[1]) ELSE 0
    IN  [ag \in 1 .. N |-> ReachScan(ps, gs, ag, 1)]

\* ------------------------------------ intended cell (lines 147-148, 184-196)
\* Fault variant of nbs: (0,+1) tried first.
nbs_down_first == << <<0, 1>>, <<1, 0>>, <<-1, 0>>, <<0, -1>> >>

\* Fault variant of nbs: the direction (0,-1) is missing.
nbs_without_up == << <<1, 0>>, <<-1, 0>>, <<0, 1>> >>

\* Line 148: the fixed neighbour order.
nbs == << <<1, 0>>, <<-1, 0>>, <<0, 1>>, <<0, -1>> >>

\* Fault variant of IntendScan: the distance test of line 194 is missing, the
\* last free in-bounds neighbour wins.
RECURSIVE IntendScan_any_neighbour(_, _, _, _, _, _)
IntendScan_any_neighbour(obs, dist, cur, k, best_d, intend) ==
    IF k > Len(nbs) THEN intend
    ELSE LET nx == cur[1] + nbs[k][1]
             ny == cur[2] + nbs[k][2]
         IN  IF InBounds(nx, ny) /\ obs[<<ny, nx>>] = 0
             THEN IntendScan_any_neighbour(obs, dist, cur, k + 1,
                                           dist[<<ny, nx>>], <<nx, ny>>)
             ELSE IntendScan_any_neighbour(obs, dist, cur, k + 1, best_d, intend)

\* The for loop over nbs from its k-th entry on, with the running best_d and
\* intend; returns the final intend.
RECURSIVE IntendScan(_, _, _, _, _, _)
IntendScan(obs, dist, cur, k, best_d, intend) ==
    IF k > Len(nbs) THEN intend
    ELSE LET nx == cur[1] + nbs[k][1]
             ny == cur[2] + nbs[k][2]
         IN  IF InBounds(nx, ny) /\ obs[<<ny, nx>>] = 0
                  /\ dist[<<ny, nx>>] < best_d
             THEN IntendScan(obs, dist, cur, k + 1, dist[<<ny, nx>>], <<nx, ny>>)
             ELSE IntendScan(obs, dist, cur, k + 1, best_d, intend)

\* intend for an in-bounds, non-obstacle cur of finite distance
Intend(obs, dist, cur) ==
    IntendScan(obs, dist, cur, 1, dist[<<cur[2], cur[1]>>], cur)

\* ------------------------------------------------------------------ inputs
\* Positions a trajectory or a goal list may hold: every cell of the grid
\* and, for each of the four bounds tests, one position that fails it.
InCells == {<<x, y>> : x \in 0 .. GridW - 1, y \in 0 .. GridH - 1}
OutCells == {<<-1, 0>>, <<GridW, 0>>, <<0, -1>>, <<0, GridH>>}
Pos == InCells \cup OutCells

\* Obstacle masks with at most n blocked cells.
Masks(n) == {m \in [Index(GridH, GridW) -> {0, 1}] : NpSum(m) <= n}

\* Solver return codes: clean, failure, the orchestrator's timeout code.
ReturnCodes == {0, 1, RC_TIMEOUT}

\* 4-adjacency of two positions.
Adjacent(p, q) ==
    \/ p[1] = q[1] /\ (p[2] = q[2] + 1 \/ q[2] = p[2] + 1)
    \/ p[2] = q[2] /\ (p[1] = q[1] + 1 \/ q[1] = p[1] + 1)

\* One agent's track over T timesteps within the positions P: at every step
\* the agent stays or moves to a 4-adjacent position.
Walks(T, P) ==
    {w \in [1 .. T -> P] :
        \A k \in 1 .. T - 1 : w[k + 1] = w[k] \/ Adjacent(w[k], w[k + 1])}

\* positions_by_t of the per-agent tracks w (each of length T).
TimeMajor(w, T) == [k \in 1 .. T |-> [a \in DOMAIN w |-> w[a][k]]]

\* A single agent: any obstacle mask of up to MaxObst cells, any walk of up
\* to MaxT timesteps over grid and off-grid positions (T = 0 is the empty
\* trajectory), any goal.
InitSingle ==
    /\ obstacles \in Masks(MaxObst)
    /\ \E T \in 0 .. MaxT :
        /\ \E w \in [1 .. 1 -> Walks(T, Pos)] : paths = TimeMajor(w, T)
        /\ goals \in [1 .. 1 -> Pos]

\* Several agents, as a solver moves them: fewer obstacles, walks over the
\* free cells with no two agents on one cell at a time, goals on free cells.
InitMulti ==
    /\ obstacles \in Masks(MaxObst - 1)
    /\ LET Free == {p \in InCells : obstacles[<<p[2], p[1]>>] = 0}
       IN  \E T \in 2 .. MaxT - 1, N \in 2 .. MaxN :
            /\ \E w \in [1 .. N -> Walks(T, Free)] :
                  /\ \A k \in 1 .. T : \A a, b \in 1 .. N :
                        a # b => w[a][k] # w[b][k]
                  /\ paths = TimeMajor(w, T)
            /\ goals \in [1 .. N -> Free]

\* A goal list longer than the trajectory's agent count.
InitMismatch ==
    /\ obstacles \in Masks(0)
    /\ \E w \in [1 .. 1 -> Walks(1, InCells)] : paths = TimeMajor(w, 1)
    /\ goals \in [1 .. 2 -> InCells]

\* No call of parse_output_txt is under way.
ParserIdle ==
    /\ lines = <<>>
    /\ expected_num_agents = <<>>
    /\ ln = 0
    /\ timesteps = <<>>
    /\ pos_by_t = <<>>
    /\ parse_pc = "idle"
    /\ parse_err = [kind |-> "none", a |-> 0, b |-> 0]
    /\ parsed = <<>>

\* No run of the aggregator is under way.
AggregatorIdle ==
    /\ npz_files = <<>>
    /\ args = <<>>
    /\ agg_pc = "idle"
    /\ agg_err = "none"
    /\ fk = 0
    /\ acc = <<>>
    /\ makespans = <<>>
    /\ used = <<>>
    /\ solved_cnt = 0
    /\ out = <<>>

\* No second run shares the grid.
ParkedIdle == parked = <<>>

\* No separate call of _bfs_dist is under way.
BfsIdle ==
    /\ bfs_obstacles = <<>>
    /\ bfs_goal = <<>>
    /\ bfs = <<>>
    /\ bfs_pc = "idle"

\* No call of export_one is under way.
ExporterIdle ==
    /\ npy = <<>>
    /\ map_file = <<>>
    /\ dest = <<>>
    /\ exp_p = <<>>
    /\ map_dims = <<>>
    /\ exp_pc = "idle"
    /\ exp_err = "none"

Init ==
    /\ H = GridH
    /\ W = GridW
    /\ InitSingle \/ InitMulti \/ InitMismatch
    /\ ParserIdle
    /\ AggregatorIdle
    /\ ParkedIdle
    /\ BfsIdle
    /\ ExporterIdle
    /\ pc = "init"
    /\ err = "none"
    /\ reach_t = <<>>
    /\ dist_cache = <<>>
    /\ wait_map = <<>>
    /\ collision_map = <<>>
    /\ occupancy_map = <<>>
    /\ total_wait = 0
    /\ total_blocked = 0
    /\ t = 0
    /\ i = 0
    /\ details = <<>>
    /\ metrics = <<>>

\* ------------------------- compute_wait_collision_heatmaps (lines 106-211)
NumT == Len(paths)
NumN == Len(paths[1])

\* Lines 128-133: the two ValueErrors.
StartRaise ==
    /\ pc = "init"
    /\ IF NumT = 0 THEN TRUE ELSE Len(goals) # NumN
    /\ pc' = "error"
    /\ err' = IF NumT = 0 THEN "Empty paths" ELSE "goals size mismatch"
    /\ UNCHANGED <<H, W, obstacles, paths, goals, reach_t, dist_cache, wait_map,
                   collision_map, occupancy_map, total_wait, total_blocked,
                   t, i, details, metrics>>
    /\ UNCHANGED <<parseVars, aggVars, parkVars, bfsVars, expVars>>

\* Lines 135-151: reach times, the three zero maps, one BFS per unique goal.
Start ==
    /\ pc = "init"
    /\ NumT # 0
    /\ Len(goals) = NumN
    /\ reach_t' = first_reach_times(paths, goals)
    /\ wait_map' = Zeros(H, W)
    /\ collision_map' = Zeros(H, W)
    /\ occupancy_map' = Zeros(H, W)
    /\ dist_cache' = [g \in {goals[k] : k \in 1 .. Len(goals)} |->
                        bfs_dist(obstacles, g)]
    /\ total_wait' = 0
    /\ total_blocked' = 0
    /\ t' = 0
    /\ i' = 0
    /\ pc' = "occ"
    /\ UNCHANGED <<H, W, obstacles, paths, goals, err, details, metrics>>
    /\ UNCHANGED <<parseVars, aggVars, parkVars, bfsVars, expVars>>

\* Fault variant of OccSkip: the visit at the first-reach time is skipped too.
OccSkip_from_reach(tt, r) == tt >= r

\* Line 156: the occupancy loop skips (t, i) after the agent's first reach.
OccSkip(tt, r) == tt > r

\* Lines 154-160: one iteration (t, i) of the occupancy loop.  Every accepted
\* line of a trajectory holds at least one position, so N >= 1 and a pass
\* over range(N) always has an iteration.
OccBody ==
    IF OccSkip(t, reach_t[i + 1]) THEN occupancy_map
    ELSE LET x == paths[t + 1][i + 1][1]
             y == paths[t + 1][i + 1][2]
         IN  IF 0 <= x /\ x < W /\ 0 <= y /\ y < H
             THEN NpIncr(occupancy_map, y, x)
             ELSE occupancy_map

OccStep ==
    /\ pc = "occ"
    /\ occupancy_map' = OccBody
    /\ IF i + 1 < NumN THEN /\ i' = i + 1
                            /\ t' = t
                            /\ pc' = "occ"
       ELSE IF t + 1 < NumT THEN /\ i' = 0
                                 /\ t' = t + 1
                                 /\ pc' = "occ"
       ELSE /\ i' = 0
            /\ t' = 0
            /\ pc' = IF NumT - 1 > 0 THEN "wait" ELSE "return"
    /\ UNCHANGED <<H, W, obstacles, paths, goals, err, reach_t, dist_cache, wait_map,
                   collision_map, total_wait, total_blocked, details, metrics>>
    /\ UNCHANGED <<parseVars, aggVars, parkVars, bfsVars, expVars>>

\* Fault variant of WaitSkip: the step at the first-reach time is processed.
WaitSkip_after_reach(tt, r) == tt > r

\* Fault variant of WaitSkip: goal-camping steps are processed too.
WaitSkip_never(tt, r) == FALSE

\* Line 165: the wait loop skips (t, i) from the agent's first reach on.
WaitSkip(tt, r) == tt >= r

\* Fault variant of Blocked: the stay test is missing.
Blocked_any_step(intend, cur, nxt) == intend # cur

\* Line 199: blocked, intended to move but stayed.
Blocked(intend, cur, nxt) == intend # cur /\ nxt = cur

\* Fault variant of AddPressure: the run counter is not incremented.
AddPressure_no_total(s, intend) ==
    [s EXCEPT !.cm = NpIncr(@, intend[2], intend[1])]

\* Lines 200-202: pressure goes to the intended cell, plus the run counter.
\* s holds the loop's four running values: wm, tw, cm, tb.
AddPressure(s, intend) ==
    [s EXCEPT !.cm = NpIncr(@, intend[2], intend[1]), !.tb = @ + 1]

\* Fault variant of AddWait: the bounds test of line 173 is missing.
AddWait_unguarded(s, cur) ==
    [s EXCEPT !.wm = NpIncr(@, cur[2], cur[1]), !.tw = @ + 1]

\* Lines 173-175: a stay step; the map only for an in-bounds cell.
AddWait(s, cur) ==
    LET cx == cur[1]
        cy == cur[2]
    IN  [s EXCEPT !.wm = IF 0 <= cx /\ cx < W /\ 0 <= cy /\ cy < H
                         THEN NpIncr(@, cy, cx) ELSE @,
                  !.tw = @ + 1]

\* Lines 163-202: one iteration (t, i) of the wait / blocking-pressure loop,
\* as the new values of the four things it writes.
WaitBody ==
    LET cur  == paths[t + 1][i + 1]
        nxt  == paths[t + 2][i + 1]
        cx   == cur[1]
        cy   == cur[2]
        s0   == [wm |-> wait_map, tw |-> total_wait,
                 cm |-> collision_map, tb |-> total_blocked]
    IN  IF WaitSkip(t, reach_t[i + 1]) THEN s0
        ELSE
          LET s1   == IF nxt = cur THEN AddWait(s0, cur) ELSE s0
              dist == dist_cache[goals[i + 1]]
          IN  IF ~(0 <= cx /\ cx < W /\ 0 <= cy /\ cy < H) THEN s1
              ELSE IF obstacles[<<cy, cx>>] # 0 THEN s1
              ELSE IF dist[<<cy, cx>>] >= INF THEN s1
              ELSE LET intend == Intend(obstacles, dist, cur)
                   IN  IF Blocked(intend, cur, nxt)
                       THEN AddPressure(s1, intend)
                       ELSE s1

WaitStep ==
    /\ pc = "wait"
    /\ LET r == WaitBody
       IN  /\ wait_map' = r.wm
           /\ total_wait' = r.tw
           /\ collision_map' = r.cm
           /\ total_blocked' = r.tb
    /\ IF i + 1 < NumN THEN /\ i' = i + 1
                            /\ t' = t
                            /\ pc' = "wait"
       ELSE IF t + 1 < NumT - 1 THEN /\ i' = 0
                                     /\ t' = t + 1
                                     /\ pc' = "wait"
       ELSE /\ i' = 0
            /\ t' = 0
            /\ pc' = "return"
    /\ UNCHANGED <<H, W, obstacles, paths, goals, err, reach_t, dist_cache,
                   occupancy_map, details, metrics>>
    /\ UNCHANGED <<parseVars, aggVars, parkVars, bfsVars, expVars>>

\* Lines 204-211.
Return ==
    /\ pc = "return"
    /\ details' = [T |-> NumT, N |-> NumN, reach_t |-> reach_t,
                   total_wait |-> total_wait, total_blocked |-> total_blocked]
    /\ pc' = "computed"
    /\ UNCHANGED <<H, W, obstacles, paths, goals, err, reach_t, dist_cache, wait_map,
                   collision_map, occupancy_map, total_wait, total_blocked,
                   t, i, metrics>>
    /\ UNCHANGED <<parseVars, aggVars, parkVars, bfsVars, expVars>>

\* Fault variant of Solved: the return code is ignored.
Solved_any_rc(reached_agents, N, solver_rc) ==
    IF reached_agents = N THEN 1 ELSE 0

\* --------------------------------------- summarize_run_metrics (214-238)
\* As called by the orchestrator on the maps just computed
\* (src/scripts/02_run_pypibt_collect.py lines 226-234).
\* Line 226.
Solved(reached_agents, N, solver_rc) ==
    IF reached_agents = N /\ solver_rc = 0 THEN 1 ELSE 0

summarize_run_metrics(ps, gs, wm, cm, solver_rc) ==
    LET T  == Len(ps)
        N  == IF T > 0 THEN Len(ps[1]) ELSE 0
        rt == first_reach_times(ps, gs)
        reached_agents == Cardinality({ag \in 1 .. N : rt[ag] < INF})
        solved == Solved(reached_agents, N, solver_rc)
    IN  [num_agents |-> N,
         makespan |-> T - 1,
         solved |-> solved,
         reached_agents |-> reached_agents,
         total_wait |-> NpSum(wm),
         total_collision |-> NpSum(cm),
         solver_rc |-> solver_rc]

Summarize ==
    /\ pc = "computed"
    /\ \E rc \in ReturnCodes :
         metrics' = summarize_run_metrics(paths, goals, wait_map,
                                          collision_map, rc)
    /\ pc' = "done"
    /\ UNCHANGED <<H, W, obstacles, paths, goals, err, reach_t, dist_cache, wait_map,
                   collision_map, occupancy_map, total_wait, total_blocked,
                   t, i, details>>
    /\ UNCHANGED <<parseVars, aggVars, parkVars, bfsVars, expVars>>

Next ==
    \/ StartRaise
    \/ Start
    \/ OccStep
    \/ WaitStep
    \/ Return
    \/ Summarize

Spec == Init /\ [][Next]_vars

\* ===================================================================
\* Properties
\* ===================================================================

\* The run has returned from compute_wait_collision_heatmaps.
Computed == pc \in {"computed", "done"}

Agents == 1 .. Len(goals)

\* The positions <<x, y>> inside the grid of the run.
GridCells == {<<x, y>> : x \in 0 .. W - 1, y \in 0 .. H - 1}

InGrid(p) == InBounds(p[1], p[2])

\* First-reach time of agent ag (1-based) as the specification states it: the
\* smallest 0-based t with position(ag, t) = goal(ag), INF if there is none.
ReachTime(ag) ==
    LET S == {k \in 1 .. NumT : paths[k][ag] = goals[ag]}
    IN  IF S = {} THEN INF
        ELSE (CHOOSE k \in S : \A j \in S : k <= j) - 1

Min(a, b) == IF a <= b THEN a ELSE b

RECURSIVE SumOf(_, _)
SumOf(f, S) ==
    IF S = {} THEN 0
    ELSE LET a == CHOOSE a \in S : TRUE IN f[a] + SumOf(f, S \ {a})

\* The agent stays in place over the step out of 1-based timestep k.
Stays(ag, k) == k < NumT /\ paths[k + 1][ag] = paths[k][ag]

\* C1: for every run, the sum over all cells of wait_map equals the
\* total_wait counter reported in the run details.
C1_WaitSumIsTotalWait ==
    Computed => NpSum(wait_map) = details.total_wait

\* C2: for every run, the sum over all cells of collision_map equals the
\* total_blocked counter, while the loop runs and as reported in the run
\* details, and so equals total_collision of summarize_run_metrics.
C2_CollisionSumIsTotalBlocked ==
    /\ pc \in {"occ", "wait", "return"} => NpSum(collision_map) = total_blocked
    /\ Computed => NpSum(collision_map) = details.total_blocked
    /\ pc = "done" => metrics.total_collision = details.total_blocked

C2_Witness ==
    /\ pc = "done"
    /\ details.total_blocked >= 2
    /\ \E c \in Index(H, W) : collision_map[c] >= 1 /\ collision_map[c] < details.total_blocked

\* C3 as stated: for every run, sum(occupancy_map) equals the sum over agents
\* of min(reach_time(agent) + 1, T).
C3_OccupancySumIsReachSum ==
    Computed =>
        NpSum(occupancy_map) =
            SumOf([ag \in Agents |-> Min(ReachTime(ag) + 1, NumT)], Agents)

\* The (timestep, agent) pairs up to and including the agent's first reach.
PreOrAtGoal == {ka \in (1 .. NumT) \X Agents : ka[1] - 1 <= ReachTime(ka[2])}

\* C3 amended: sum(occupancy_map) equals the number of (t, agent) pairs with
\* t <= reach_time(agent) whose position is in bounds; when all those
\* positions are in bounds, that is the sum over agents of
\* min(reach_time(agent) + 1, T).
C3_OccupancySumIsInBoundsVisits ==
    Computed =>
        /\ NpSum(occupancy_map) =
             Cardinality({ka \in PreOrAtGoal : InGrid(paths[ka[1]][ka[2]])})
        /\ (\A ka \in PreOrAtGoal : InGrid(paths[ka[1]][ka[2]])) =>
             NpSum(occupancy_map) =
                SumOf([ag \in Agents |-> Min(ReachTime(ag) + 1, NumT)], Agents)

C3_Witness ==
    /\ Computed
    /\ \E ka \in PreOrAtGoal : ~InGrid(paths[ka[1]][ka[2]])
    /\ \E ka \in PreOrAtGoal : InGrid(paths[ka[1]][ka[2]])
    /\ \E ag \in Agents : ReachTime(ag) < NumT - 1

\* C4: solved = 1 if and only if every agent's position at the final
\* timestep equals its goal and solver_rc = 0; otherwise solved = 0.
C4_SolvedIffAllAtGoalAtEnd ==
    pc = "done" =>
        /\ metrics.solved \in {0, 1}
        /\ metrics.solved = 1 <=>
             /\ \A ag \in Agents : paths[NumT][ag] = goals[ag]
             /\ metrics.solver_rc = 0

\* C5: reached_agents is the number of agents whose first-reach time is
\* finite; solved = 1 if and only if reached_agents = num_agents and
\* solver_rc = 0; any non-zero return code yields solved = 0.
C5_SolvedIffAllReachedAndCleanRc ==
    pc = "done" =>
        /\ metrics.reached_agents =
             Cardinality({ag \in Agents : ReachTime(ag) < INF})
        /\ metrics.num_agents = Len(goals)
        /\ metrics.solved \in {0, 1}
        /\ metrics.solved = 1 <=>
             /\ metrics.reached_agents = metrics.num_agents
             /\ metrics.solver_rc = 0
        /\ metrics.solver_rc # 0 => metrics.solved = 0

C5_Witness ==
    /\ pc = "done"
    /\ metrics.solver_rc = RC_TIMEOUT
    /\ Len(goals) = 2
    /\ \A ag \in Agents : ReachTime(ag) < INF
    /\ metrics.solved = 0

\* C6: goal-camping exclusion.  No (t, agent) iteration with t strictly
\* after the agent's first-reach time adds to occupancy_map, and none with t
\* at or after it adds to wait_map or collision_map (or their counters), for
\* the whole remainder of the trajectory.
C6_GoalCampingExcluded ==
    [][ /\ (\E c \in DOMAIN occupancy_map :
                occupancy_map'[c] # occupancy_map[c]) =>
             pc = "occ" /\ t <= ReachTime(i + 1)
        /\ (\/ \E c \in DOMAIN wait_map : wait_map'[c] # wait_map[c]
            \/ \E c \in DOMAIN collision_map :
                  collision_map'[c] # collision_map[c]
            \/ total_wait' # total_wait
            \/ total_blocked' # total_blocked) =>
             pc = "wait" /\ t < ReachTime(i + 1) ]_vars

\* An agent that reached its goal, left it and then waited on another free
\* cell from which its goal is reachable; the run counted nothing for it.
C6_Witness ==
    /\ Computed
    /\ Len(goals) = 1
    /\ ReachTime(1) = 0
    /\ NumT = 3
    /\ paths[2][1] # goals[1]
    /\ paths[3][1] = paths[2][1]
    /\ InGrid(paths[2][1])
    /\ dist_cache[goals[1]][<<paths[2][1][2], paths[2][1][1]>>] < INF
    /\ NpSum(wait_map) = 0
    /\ NpSum(collision_map) = 0
    /\ NpSum(occupancy_map) = 1

\* The neighbour order the specification fixes: (+1,0), (-1,0), (0,+1), (0,-1).
FixedOrder == << <<1, 0>>, <<-1, 0>>, <<0, 1>>, <<0, -1>> >>

\* The k-th neighbour of cur in the fixed order.
Nb(cur, k) == <<cur[1] + FixedOrder[k][1], cur[2] + FixedOrder[k][2]>>

\* The neighbours (by index) of cur that lie in the grid and are strictly
\* closer to the goal than cur in the field dist.
Closer(dist, cur) ==
    {k \in 1 .. 4 : /\ InGrid(Nb(cur, k))
                    /\ dist[<<Nb(cur, k)[2], Nb(cur, k)[1]>>]
                         < dist[<<cur[2], cur[1]>>]}

\* The first strictly closer neighbour in the fixed order; cur itself when
\* there is none (no intention).
FirstCloser(dist, cur) ==
    IF Closer(dist, cur) = {} THEN cur
    ELSE Nb(cur, CHOOSE k \in Closer(dist, cur) :
                    \A j \in Closer(dist, cur) : k <= j)

\* C7: when the loops of a run are through, for every goal of the run and
\* every in-bounds cell of finite BFS distance to it, the cell the running-minimum selection picks is the first
\* neighbour in the fixed order that is strictly closer to the goal, and it is
\* the cell itself (no intention) when no neighbour is strictly closer.
C7_IntendIsFirstStrictlyCloser ==
    pc = "return" =>
        \A g \in DOMAIN dist_cache : \A c \in GridCells :
            dist_cache[g][<<c[2], c[1]>>] < INF =>
                Intend(obstacles, dist_cache[g], c)
                    = FirstCloser(dist_cache[g], c)

\* An agent waited on a cell with two strictly closer neighbours and the
\* pressure went to the first of them in the fixed order.
C7_Witness ==
    /\ Computed
    /\ Len(goals) = 1
    /\ NumT = 2
    /\ paths[1][1] = paths[2][1]
    /\ InGrid(paths[1][1])
    /\ Cardinality(Closer(dist_cache[goals[1]], paths[1][1])) = 2
    /\ LET f == FirstCloser(dist_cache[goals[1]], paths[1][1])
       IN  collision_map[<<f[2], f[1]>>] = 1

\* The (timestep, agent) pairs, timestep 1-based, at which the agent has not
\* yet reached its goal, stays in place, stands on an in-bounds cell of
\* finite distance to its goal, and c (as <<y, x>>) is its intended cell.
BlockedAt(c) ==
    {ka \in (1 .. NumT - 1) \X Agents :
        LET k   == ka[1]
            ag  == ka[2]
            cur == paths[k][ag]
        IN  /\ k - 1 < ReachTime(ag)
            /\ Stays(ag, k)
            /\ InGrid(cur)
            /\ dist_cache[goals[ag]][<<cur[2], cur[1]>>] < INF
            /\ FirstCloser(dist_cache[goals[ag]], cur) # cur
            /\ FirstCloser(dist_cache[goals[ag]], cur) = <<c[2], c[1]>>}

\* C8: for every cell c, collision_map[c] is the number of (t, agent) pairs
\* with t < reach_time(agent) at which the agent stayed in place and its
\* intended cell is c: the increment goes to the intended cell, never to the
\* current cell, and a step on which the agent moved adds nothing.
C8_CollisionMapCountsBlockedIntentions ==
    Computed =>
        \A c \in Index(H, W) : collision_map[c] = Cardinality(BlockedAt(c))

\* One agent, blocked on its first step and moving on its second without
\* reaching its goal: one unit of pressure, on the intended cell only.
C8_Witness ==
    /\ Computed
    /\ Len(goals) = 1
    /\ NumT = 3
    /\ ReachTime(1) = INF
    /\ paths[1][1] = paths[2][1]
    /\ paths[2][1] # paths[3][1]
    /\ InGrid(paths[2][1]) /\ InGrid(paths[3][1])
    /\ dist_cache[goals[1]][<<paths[3][1][2], paths[3][1][1]>>] < INF
    /\ NpSum(collision_map) = 1
    /\ collision_map[<<paths[1][1][2], paths[1][1][1]>>] = 0

\* The in-grid 4-neighbours of the position p.
Neighbours(p) == {q \in GridCells : Adjacent(p, q)}

\* The free cells joined to the free cell g by an obstacle-free 4-connected
\* path: the least set holding g and closed under free neighbours.
RECURSIVE Grow(_, _)
Grow(obs, S) ==
    LET S2 == S \cup {q \in GridCells :
                        /\ obs[<<q[2], q[1]>>] = 0
                        /\ \E p \in S : Adjacent(p, q)}
    IN  IF S2 = S THEN S ELSE Grow(obs, S2)

Connected(obs, g) == Grow(obs, {g})

\* C9: for every in-bounds, non-obstacle goal, the field _bfs_dist has just
\* returned for the run's distance table has
\* distance(goal) = 0; every other finite-distance cell has a 4-neighbour
\* whose distance is exactly one less; every cell that is an obstacle or has
\* no obstacle-free 4-connected path to the goal holds INF.
C9_DistanceField ==
    (pc = "occ" /\ t = 0 /\ i = 0) =>
        \A g \in DOMAIN dist_cache :
            (InGrid(g) /\ obstacles[<<g[2], g[1]>>] = 0) =>
                LET d == dist_cache[g]
                IN  /\ d[<<g[2], g[1]>>] = 0
                    /\ \A c \in GridCells :
                         (c # g /\ d[<<c[2], c[1]>>] < INF) =>
                            \E q \in Neighbours(c) :
                               d[<<q[2], q[1]>>] = d[<<c[2], c[1]>>] - 1
                    /\ \A c \in GridCells :
                         (obstacles[<<c[2], c[1]>>] # 0
                            \/ c \notin Connected(obstacles, g)) =>
                            d[<<c[2], c[1]>>] = INF

\* A field with a free cell cut off from the goal by obstacles and a cell
\* at distance 1.
C9_Witness ==
    /\ pc = "occ"
    /\ \E g \in DOMAIN dist_cache :
          /\ InGrid(g)
          /\ obstacles[<<g[2], g[1]>>] = 0
          /\ \E c \in GridCells : /\ obstacles[<<c[2], c[1]>>] = 0
                                /\ c \notin Connected(obstacles, g)
                                /\ dist_cache[g][<<c[2], c[1]>>] = INF
          /\ \E c \in GridCells : dist_cache[g][<<c[2], c[1]>>] = 1

\* The goal g gives no usable root: outside the grid or on an obstacle.
BadGoal(g) == ~InGrid(g) \/ obstacles[<<g[2], g[1]>>] # 0

\* C10: when the goal lies outside the grid (negative coordinates included)
\* or on an obstacle cell, _bfs_dist returns the all-INF field and the run
\* raises no error; no iteration for an agent with that goal adds blocking
\* pressure, while its stay steps and its visits before reaching the goal are
\* still counted.
C10_BadGoalNoPressure ==
    /\ [](pc \notin {"init", "error"} =>
            \A g \in DOMAIN dist_cache :
                BadGoal(g) => \A c \in Index(H, W) : dist_cache[g][c] = INF)
    /\ [][ (pc \in {"occ", "wait"} /\ BadGoal(goals[i + 1])) =>
              LET cur == paths[t + 1][i + 1]
                  c   == <<cur[2], cur[1]>>
              IN  /\ pc' # "error"
                  /\ err' = "none"
                  /\ collision_map' = collision_map
                  /\ total_blocked' = total_blocked
                  /\ (pc = "occ" /\ t <= ReachTime(i + 1) /\ InGrid(cur)) =>
                        occupancy_map'[c] = occupancy_map[c] + 1
                  /\ (pc = "wait" /\ t < ReachTime(i + 1) /\ Stays(i + 1, t + 1)) =>
                        /\ total_wait' = total_wait + 1
                        /\ InGrid(cur) => wait_map'[c] = wait_map[c] + 1 ]_vars

\* An agent whose goal is on an obstacle waited on a free cell next to it:
\* the wait and the visits are counted, no pressure is.
C10_Witness ==
    /\ Computed
    /\ Len(goals) = 1
    /\ InGrid(goals[1])
    /\ obstacles[<<goals[1][2], goals[1][1]>>] = 1
    /\ NumT = 3
    /\ paths[1][1] = paths[2][1]
    /\ paths[2][1] = paths[3][1]
    /\ Adjacent(paths[1][1], goals[1])
    /\ InGrid(paths[1][1])
    /\ obstacles[<<paths[1][1][2], paths[1][1][1]>>] = 0
    /\ wait_map[<<paths[1][1][2], paths[1][1][1]>>] = 2
    /\ occupancy_map[<<paths[1][1][2], paths[1][1][1]>>] = 3
    /\ details.total_blocked = 0
    /\ NpSum(collision_map) = 0

\* ===================================================================
\* The concrete scenario: a 3 x 3 obstacle-free grid, two agents
\* ===================================================================

\* The cells <<x, y>> of the 3 x 3 grid.
ScenarioCells == {<<x, y>> : x \in 0 .. 2, y \in 0 .. 2}

ScenarioGoals == << <<2, 2>>, <<0, 0>> >>

\* Agent 0 walks (0,0),(1,0),(1,1),(2,1),(2,2) over t = 0..4; agent 1 stays
\* at (0,2).
ScenarioTrack0 == << <<0, 0>>, <<1, 0>>, <<1, 1>>, <<2, 1>>, <<2, 2>> >>
ScenarioTrack1 == [k \in 1 .. 5 |-> <<0, 2>>]
ScenarioPaths == TimeMajor(<<ScenarioTrack0, ScenarioTrack1>>, 5)

\* The scenario and its neighbours: agent 0 takes any of the shortest routes
\* from (0,0) to (2,2), agent 1 stands still on any cell agent 0 never enters.
InitScenario ==
    /\ H = 3
    /\ W = 3
    /\ obstacles = Zeros(3, 3)
    /\ goals = ScenarioGoals
    /\ \E w0 \in Walks(5, ScenarioCells) :
         /\ w0[1] = <<0, 0>>
         /\ w0[5] = <<2, 2>>
         /\ \A k \in 1 .. 4 : w0[k + 1] # w0[k]
         /\ \E c \in ScenarioCells \ {w0[k] : k \in 1 .. 5} :
               paths = TimeMajor(<<w0, [k \in 1 .. 5 |-> c]>>, 5)
    /\ ParserIdle
    /\ AggregatorIdle
    /\ ParkedIdle
    /\ BfsIdle
    /\ ExporterIdle
    /\ pc = "init"
    /\ err = "none"
    /\ reach_t = <<>>
    /\ dist_cache = <<>>
    /\ wait_map = <<>>
    /\ collision_map = <<>>
    /\ occupancy_map = <<>>
    /\ total_wait = 0
    /\ total_blocked = 0
    /\ t = 0
    /\ i = 0
    /\ details = <<>>
    /\ metrics = <<>>

\* The trajectory is not empty and has one goal per agent: neither
\* ValueError is raised.
ScenarioNext ==
    \/ Start
    \/ OccStep
    \/ WaitStep
    \/ Return
    \/ Summarize

ScenarioSpec == InitScenario /\ [][ScenarioNext]_vars

IsScenario == paths = ScenarioPaths

\* C11: in the concrete scenario, agent 1's reach time is INF and agent 0's
\* is 4; wait_map holds 4 at cell (0,2) and 0 elsewhere; collision_map holds
\* 4 at the neighbour of (0,2) that agent 1 intends toward (0,0) and 0
\* elsewhere; no iteration for agent 0 adds wait or pressure.
C11_ConcreteScenario ==
    /\ [](IsScenario /\ Computed =>
            LET intend == FirstCloser(dist_cache[<<0, 0>>], <<0, 2>>)
            IN  /\ details.reach_t[1] = 4
                /\ details.reach_t[2] = INF
                /\ wait_map = [c \in Index(3, 3) |->
                                 IF c = <<2, 0>> THEN 4 ELSE 0]
                /\ Adjacent(intend, <<0, 2>>)
                /\ collision_map = [c \in Index(3, 3) |->
                                      IF c = <<intend[2], intend[1]>>
                                      THEN 4 ELSE 0]
                /\ details.total_wait = 4
                /\ details.total_blocked = 4)
    /\ [][ (IsScenario /\ pc = "wait" /\ i = 0) =>
              /\ wait_map' = wait_map
              /\ collision_map' = collision_map
              /\ total_wait' = total_wait
              /\ total_blocked' = total_blocked ]_vars

\* The scenario has run to its end; the pressure lies on (0,1).
C11_Witness ==
    /\ IsScenario
    /\ pc = "done"
    /\ wait_map[<<2, 0>>] = 4
    /\ collision_map[<<1, 0>>] = 4
    /\ occupancy_map[<<2, 0>>] = 5

\* ===================================================================
\* parse_output_txt (src/src/praw/parse_paths.py)
\* ===================================================================
\* A line of the text is a sequence of tokens <<kind, a, b>>: a run of
\* whitespace, a string of digits of value a, a colon, a comma, a well-formed
\* pair "(a,b)", or any other text.
Ws == <<"ws", 0, 0>>
Num(n) == <<"num", n, 0>>
Colon == <<"colon", 0, 0>>
Comma == <<"comma", 0, 0>>
Pair(x, y) == <<"xy", x, y>>
Other == <<"other", 0, 0>>

\* The index of the first token of line at or after k that is no whitespace
\* (Len(line) + 1 when there is none): what \s* consumes.
RECURSIVE SkipWs(_, _)
SkipWs(line, k) ==
    IF k > Len(line) THEN k
    ELSE IF line[k] = Ws THEN SkipWs(line, k + 1)
    ELSE k

NoMatch == [ok |-> FALSE, t |-> 0, rest |-> <<>>]

\* _TLINE_RE.match(ln): optional whitespace, digits, optional whitespace, a
\* colon, then the rest of the line; group(1) as an int and group(2).
TLineMatch(line) ==
    LET a == SkipWs(line, 1)
    IN  IF a > Len(line) THEN NoMatch
        ELSE IF line[a][1] # "num" THEN NoMatch
        ELSE LET b == SkipWs(line, a + 1)
             IN  IF b > Len(line) THEN NoMatch
                 ELSE IF line[b] # Colon THEN NoMatch
                 ELSE [ok |-> TRUE, t |-> line[a][2],
                       rest |-> SubSeq(line, b + 1, Len(line))]

IsPair(tok) == tok[1] = "xy"

\* [(int(a), int(b)) for (a, b) in _XY_RE.findall(rest)]
XYFindall(rest) ==
    LET sel == SelectSeq(rest, IsPair)
    IN  [j \in 1 .. Len(sel) |-> <<sel[j][2], sel[j][3]>>]

\* ------------------------------------------------------------------ inputs
\* The solution line "t:(1,t),(2,t),...": k pairs, agent a at (a, t).
SolutionLine(tt, k) ==
    <<Num(tt), Colon>> \o [j \in 1 .. 2 * k - 1 |->
                            IF j % 2 = 1 THEN Pair((j + 1) \div 2, tt)
                            ELSE Comma]

\* Lines a solver's output holds beside solution lines: an empty line, a
\* header, a line of pairs with no timestep, an indented "0 : " with no pair.
OtherLines ==
    { <<>>,
      <<Other>>,
      <<Other, Colon, Pair(1, 0)>>,
      <<Ws, Num(0), Ws, Colon, Ws>> }

TextLines ==
    {SolutionLine(tt, k) : tt \in 0 .. MaxStamp, k \in 1 .. MaxPairs}
        \cup OtherLines

\* Texts of up to MaxLines lines.
Texts == UNION {[1 .. n -> TextLines] : n \in 0 .. MaxLines}

\* expected_num_agents: None, or a count.
Expecteds == {<<>>} \cup {<<n>> : n \in 1 .. MaxPairs}

\* No run of compute_wait_collision_heatmaps is under way.
HeatmapIdle ==
    /\ H = 0
    /\ W = 0
    /\ obstacles = <<>>
    /\ paths = <<>>
    /\ goals = <<>>
    /\ pc = "idle"
    /\ err = "none"
    /\ reach_t = <<>>
    /\ dist_cache = <<>>
    /\ wait_map = <<>>
    /\ collision_map = <<>>
    /\ occupancy_map = <<>>
    /\ total_wait = 0
    /\ total_blocked = 0
    /\ t = 0
    /\ i = 0
    /\ details = <<>>
    /\ metrics = <<>>

ParseInit ==
    /\ lines \in Texts
    /\ expected_num_agents \in Expecteds
    /\ ln = 0
    /\ timesteps = <<>>
    /\ pos_by_t = <<>>
    /\ parse_pc = "loop"
    /\ parse_err = [kind |-> "none", a |-> 0, b |-> 0]
    /\ parsed = <<>>
    /\ HeatmapIdle
    /\ AggregatorIdle
    /\ ParkedIdle
    /\ BfsIdle
    /\ ExporterIdle

\* ---------------------------------------------- the for loop (lines 42-58)
\* Fault variant of IsSolutionLine: a matching line with no pair is accepted.
IsSolutionLine_any_match(m, xy) == m.ok

\* Lines 43-51: the line matches and holds at least one pair.
IsSolutionLine(m, xy) == m.ok /\ xy # <<>>

\* Line 52.
CountMismatch(expected, xy) ==
    IF expected = <<>> THEN FALSE ELSE Len(xy) # expected[1]

\* The line the loop is at, its match and its pairs.
CurLine == lines[ln + 1]
CurMatch == TLineMatch(CurLine)
CurXY == XYFindall(CurMatch.rest)

\* Lines 44-45, 49-51: continue.
ParseSkip ==
    /\ parse_pc = "loop"
    /\ ln < Len(lines)
    /\ ~IsSolutionLine(CurMatch, CurXY)
    /\ ln' = ln + 1
    /\ UNCHANGED <<lines, expected_num_agents, timesteps, pos_by_t, parse_pc,
                   parse_err, parsed>>
    /\ UNCHANGED <<heatVars, aggVars, parkVars, bfsVars, expVars>>

\* Lines 52-56: "Agent count mismatch at t=..: got .., expected ..".
ParseRaiseCount ==
    /\ parse_pc = "loop"
    /\ ln < Len(lines)
    /\ IsSolutionLine(CurMatch, CurXY)
    /\ CountMismatch(expected_num_agents, CurXY)
    /\ parse_pc' = "raised"
    /\ parse_err' = [kind |-> "Agent count mismatch", a |-> CurMatch.t,
                     b |-> Len(CurXY)]
    /\ UNCHANGED <<lines, expected_num_agents, ln, timesteps, pos_by_t, parsed>>
    /\ UNCHANGED <<heatVars, aggVars, parkVars, bfsVars, expVars>>

\* Lines 57-58.
ParseAccept ==
    /\ parse_pc = "loop"
    /\ ln < Len(lines)
    /\ IsSolutionLine(CurMatch, CurXY)
    /\ ~CountMismatch(expected_num_agents, CurXY)
    /\ timesteps' = Append(timesteps, CurMatch.t)
    /\ pos_by_t' = Append(pos_by_t, CurXY)
    /\ ln' = ln + 1
    /\ UNCHANGED <<lines, expected_num_agents, parse_pc, parse_err, parsed>>
    /\ UNCHANGED <<heatVars, aggVars, parkVars, bfsVars, expVars>>

\* ------------------------------------------- after the loop (lines 60-86)
NoError == [kind |-> "none", a |-> 0, b |-> 0]

\* Fault variant of NonIncreasing: equal timesteps pass.
NonIncreasing_allow_equal(prev, now) == now < prev

\* Line 65: timesteps[i] <= timesteps[i - 1].
NonIncreasing(prev, now) == now <= prev

\* The least element of a non-empty set of indices: where a for loop that
\* raises at its first hit stops.
First(S) == CHOOSE k \in S : \A j \in S : k <= j

\* Lines 68-70.
NumAgents(pbt, expected) ==
    IF expected # <<>> THEN expected[1] ELSE Len(pbt[1])

\* Lines 64-66: "Non-increasing timesteps .. -> ..".
CheckOrder(ts) ==
    LET S == {k \in 2 .. Len(ts) : NonIncreasing(ts[k - 1], ts[k])}
    IN  IF S = {} THEN NoError
        ELSE [kind |-> "Non-increasing timesteps",
              a |-> ts[First(S) - 1], b |-> ts[First(S)]]

\* Lines 74-76: "Inconsistent agent count across timesteps. first=.., now=..".
CheckCount(pbt, expected) ==
    LET n == NumAgents(pbt, expected)
        S == {k \in 1 .. Len(pbt) : Len(pbt[k]) # n}
    IN  IF S = {} THEN NoError
        ELSE [kind |-> "Inconsistent agent count",
              a |-> n, b |-> Len(pbt[First(S)])]

\* Fault variant of Validate: the agent count is checked before the order.
Validate_count_first(ts, pbt, expected) ==
    IF ts = <<>> THEN [kind |-> "No solution lines found", a |-> 0, b |-> 0]
    ELSE IF CheckCount(pbt, expected) # NoError
         THEN CheckCount(pbt, expected)
    ELSE CheckOrder(ts)

\* Lines 60-76: the checks after the loop, in the order the code makes them;
\* the ValueError raised, or NoError.
Validate(ts, pbt, expected) ==
    IF ts = <<>> THEN [kind |-> "No solution lines found", a |-> 0, b |-> 0]
    ELSE IF CheckOrder(ts) # NoError THEN CheckOrder(ts)
    ELSE CheckCount(pbt, expected)

\* Lines 72-86: the per-agent view and the dictionary returned.
Result(ts, pbt, expected) ==
    LET n == NumAgents(pbt, expected)
    IN  [timesteps |-> ts,
         positions_by_t |-> pbt,
         paths |-> [ag \in 1 .. n |-> [k \in 1 .. Len(pbt) |-> pbt[k][ag]]],
         num_agents |-> n,
         makespan |-> ts[Len(ts)]]

ParseRaiseEmpty ==
    /\ parse_pc = "loop"
    /\ ln = Len(lines)
    /\ Validate(timesteps, pos_by_t, expected_num_agents).kind
          = "No solution lines found"
    /\ parse_pc' = "raised"
    /\ parse_err' = Validate(timesteps, pos_by_t, expected_num_agents)
    /\ UNCHANGED <<lines, expected_num_agents, ln, timesteps, pos_by_t, parsed>>
    /\ UNCHANGED <<heatVars, aggVars, parkVars, bfsVars, expVars>>

ParseRaiseOrder ==
    /\ parse_pc = "loop"
    /\ ln = Len(lines)
    /\ Validate(timesteps, pos_by_t, expected_num_agents).kind
          = "Non-increasing timesteps"
    /\ parse_pc' = "raised"
    /\ parse_err' = Validate(timesteps, pos_by_t, expected_num_agents)
    /\ UNCHANGED <<lines, expected_num_agents, ln, timesteps, pos_by_t, parsed>>
    /\ UNCHANGED <<heatVars, aggVars, parkVars, bfsVars, expVars>>

ParseRaiseInconsistent ==
    /\ parse_pc = "loop"
    /\ ln = Len(lines)
    /\ Validate(timesteps, pos_by_t, expected_num_agents).kind
          = "Inconsistent agent count"
    /\ parse_pc' = "raised"
    /\ parse_err' = Validate(timesteps, pos_by_t, expected_num_agents)
    /\ UNCHANGED <<lines, expected_num_agents, ln, timesteps, pos_by_t, parsed>>
    /\ UNCHANGED <<heatVars, aggVars, parkVars, bfsVars, expVars>>

ParseReturn ==
    /\ parse_pc = "loop"
    /\ ln = Len(lines)
    /\ Validate(timesteps, pos_by_t, expected_num_agents) = NoError
    /\ parse_pc' = "returned"
    /\ parsed' = Result(timesteps, pos_by_t, expected_num_agents)
    /\ UNCHANGED <<lines, expected_num_agents, ln, timesteps, pos_by_t,
                   parse_err>>
    /\ UNCHANGED <<heatVars, aggVars, parkVars, bfsVars, expVars>>

ParseNext ==
    \/ ParseSkip
    \/ ParseRaiseCount
    \/ ParseAccept
    \/ ParseRaiseEmpty
    \/ ParseRaiseOrder
    \/ ParseRaiseInconsistent
    \/ ParseReturn

ParseSpec == ParseInit /\ [][ParseNext]_vars

\* parse_output_txt as a function of its arguments: the loop from line k + 1
\* on with the lists built so far, then the checks; the outcome is the
\* position the call ends in, the error and the dictionary.
RECURSIVE ParseLoop(_, _, _, _, _)
ParseLoop(text, expected, k, ts, pbt) ==
    IF k = Len(text)
    THEN LET e == Validate(ts, pbt, expected)
         IN  IF e = NoError
             THEN [pc |-> "returned", err |-> NoError,
                   parsed |-> Result(ts, pbt, expected)]
             ELSE [pc |-> "raised", err |-> e, parsed |-> <<>>]
    ELSE LET m  == TLineMatch(text[k + 1])
             xy == XYFindall(m.rest)
         IN  IF ~IsSolutionLine(m, xy)
             THEN ParseLoop(text, expected, k + 1, ts, pbt)
             ELSE IF CountMismatch(expected, xy)
             THEN [pc |-> "raised",
                   err |-> [kind |-> "Agent count mismatch", a |-> m.t,
                            b |-> Len(xy)],
                   parsed |-> <<>>]
             ELSE ParseLoop(text, expected, k + 1, Append(ts, m.t),
                            Append(pbt, xy))

parse_output_txt(text, expected) == ParseLoop(text, expected, 0, <<>>, <<>>)

\* ------------------------------------------------------ parser properties
\* The call has ended.
ParseEnded == parse_pc \in {"returned", "raised"}

\* A line that matches the "t:..." pattern and holds at least one pair.
LooksLikeSolution(line) ==
    TLineMatch(line).ok /\ XYFindall(TLineMatch(line).rest) # <<>>

\* The solution lines of the text, in text order: timestep and pair count.
SolLines ==
    LET sel == SelectSeq(lines, LooksLikeSolution)
    IN  [k \in 1 .. Len(sel) |->
            [t |-> TLineMatch(sel[k]).t,
             n |-> Len(XYFindall(TLineMatch(sel[k]).rest)),
             xy |-> XYFindall(TLineMatch(sel[k]).rest)]]

\* The four rules, each as "the text violates it".
ViolA == \E k \in 2 .. Len(SolLines) : SolLines[k].t <= SolLines[k - 1].t
ViolB == IF expected_num_agents = <<>> THEN FALSE
         ELSE \E k \in 1 .. Len(SolLines) :
                 SolLines[k].n # expected_num_agents[1]
ViolC == IF expected_num_agents # <<>> THEN FALSE
         ELSE \E k \in 1 .. Len(SolLines) : SolLines[k].n # SolLines[1].n
ViolD == SolLines = <<>>

\* C12: whenever parse_output_txt returns, the trajectory has T >= 1
\* timesteps, strictly increasing timestep values, and the same number N of
\* positions at every timestep (expected_num_agents when supplied); it is the
\* text's solution lines, so a text that breaks one of these never returns.
C12_ReturnedTrajectoryWellFormed ==
    parse_pc = "returned" =>
        LET T == Len(parsed.positions_by_t)
            N == parsed.num_agents
        IN  /\ T >= 1
            /\ Len(parsed.timesteps) = T
            /\ \A k \in 1 .. T - 1 :
                  parsed.timesteps[k] < parsed.timesteps[k + 1]
            /\ \A k \in 1 .. T : Len(parsed.positions_by_t[k]) = N
            /\ expected_num_agents # <<>> => N = expected_num_agents[1]
            /\ Len(SolLines) = T
            /\ \A k \in 1 .. T : /\ parsed.timesteps[k] = SolLines[k].t
                                 /\ parsed.positions_by_t[k] = SolLines[k].xy
            /\ ~ViolA /\ ~ViolB /\ ~ViolC /\ ~ViolD

\* Two agents over the timesteps 0 and 2, with the count supplied.
C12_Witness ==
    /\ parse_pc = "returned"
    /\ expected_num_agents = <<2>>
    /\ parsed.timesteps = <<0, 2>>
    /\ parsed.num_agents = 2
    /\ Len(lines) = 3

\* The rule an error reports.
RuleOf(kind) ==
    CASE kind = "Non-increasing timesteps" -> "a"
      [] kind = "Agent count mismatch" -> "b"
      [] kind = "Inconsistent agent count" -> "c"
      [] kind = "No solution lines found" -> "d"
      [] OTHER -> "none"

Violates(rule) ==
    CASE rule = "a" -> ViolA
      [] rule = "b" -> ViolB
      [] rule = "c" -> ViolC
      [] rule = "d" -> ViolD

\* The first rule of the sequence order that the text violates.
Earliest(order) ==
    LET S == {k \in 1 .. Len(order) : Violates(order[k])}
    IN  IF S = {} THEN "none" ELSE order[First(S)]

\* C13 as stated: the failure raised is the one for the earliest violated
\* rule in the order (a), (b), (c), (d), and a rule-(b) failure names the
\* offending timestep.
C13_EarliestRuleAsStated ==
    parse_pc = "raised" =>
        /\ RuleOf(parse_err.kind) = Earliest(<<"a", "b", "c", "d">>)
        /\ parse_err.kind = "Agent count mismatch" =>
              \E k \in 1 .. Len(SolLines) :
                  /\ SolLines[k].n # expected_num_agents[1]
                  /\ parse_err.a = SolLines[k].t

\* C13 amended: rule (b) is applied first, line by line while the text is
\* read; then (a), (c), (d).  The failure raised is the one for the earliest
\* violated rule in the order (b), (a), (c), (d); a rule-(b) failure names
\* the timestep and the pair count of the first offending line; and the call
\* raises exactly when a rule is violated.
C13_EarliestRuleCountFirst ==
    /\ parse_pc = "raised" =>
        /\ RuleOf(parse_err.kind) = Earliest(<<"b", "a", "c", "d">>)
        /\ parse_err.kind = "Agent count mismatch" =>
              LET S == {k \in 1 .. Len(SolLines) :
                          SolLines[k].n # expected_num_agents[1]}
              IN  /\ parse_err.a = SolLines[First(S)].t
                  /\ parse_err.b = SolLines[First(S)].n
    /\ parse_pc = "returned" => Earliest(<<"b", "a", "c", "d">>) = "none"

\* A text that breaks the order of timesteps and then the expected count:
\* the count failure is the one raised.
C13_Witness ==
    /\ parse_pc = "raised"
    /\ ViolA
    /\ ViolB
    /\ parse_err.kind = "Agent count mismatch"
    /\ Len(timesteps) = 2
    /\ timesteps[2] < timesteps[1]

\* The text without its p-th line.
Without(text, p) ==
    [k \in 1 .. Len(text) - 1 |-> IF k < p THEN text[k] ELSE text[k + 1]]

\* C14: a line that does not match the "t:..." pattern, or matches it with
\* zero pairs, is skipped silently: the loop step over it raises nothing and
\* adds nothing, and the call ends exactly as it does on the text without
\* that line (same timesteps, positions_by_t, paths, num_agents; same error
\* if the rest of the text is at fault).
C14_NonSolutionLinesSkipped ==
    /\ [](ParseEnded =>
            \A p \in 1 .. Len(lines) :
                ~LooksLikeSolution(lines[p]) =>
                    LET o == parse_output_txt(Without(lines, p),
                                              expected_num_agents)
                    IN  /\ o.pc = parse_pc
                        /\ o.err = parse_err
                        /\ o.pc = "returned" => o.parsed = parsed)
    /\ [][ (parse_pc = "loop" /\ ln < Len(lines)
               /\ ~LooksLikeSolution(lines[ln + 1])) =>
              /\ parse_pc' = "loop"
              /\ parse_err' = parse_err
              /\ timesteps' = timesteps
              /\ pos_by_t' = pos_by_t ]_vars

\* A header, then a solution line, then a matching line with no pair: the
\* call returns the one timestep.
C14_Witness ==
    /\ parse_pc = "returned"
    /\ Len(lines) = 3
    /\ ~TLineMatch(lines[1]).ok
    /\ LooksLikeSolution(lines[2])
    /\ TLineMatch(lines[3]).ok
    /\ ~LooksLikeSolution(lines[3])
    /\ Len(parsed.timesteps) = 1
    /\ parsed.num_agents = 2

\* ===================================================================
\* The aggregator (src/scripts/03_aggregate_p_raw.py)
\* ===================================================================
\* ------------------------------------------------ fixed-width integers
\* A 64-bit integer (np.int64) is held as its two's-complement word, four
\* 16-bit limbs, least significant first; a 32-bit integer (np.int32) as
\* the integer itself.
Limb == 65536

\* astype(np.int64) of a 32-bit integer: sign extension.
AsInt64(n) ==
    LET s == IF n < 0 THEN Limb - 1 ELSE 0
    IN  <<n % Limb, (n \div Limb) % Limb, s, s>>

\* a + b in np.int64: carries run up the limbs, the last carry is lost.
Add64(a, b) ==
    LET s1 == a[1] + b[1]
        s2 == a[2] + b[2] + (s1 \div Limb)
        s3 == a[3] + b[3] + (s2 \div Limb)
        s4 == a[4] + b[4] + (s3 \div Limb)
    IN  <<s1 % Limb, s2 % Limb, s3 % Limb, s4 % Limb>>

\* astype(np.int32) of a 64-bit integer: the low 32 bits, read as signed.
AsInt32(w) ==
    IF w[2] >= Limb \div 2 THEN (w[2] - Limb) * Limb + w[1]
    ELSE w[2] * Limb + w[1]

\* int(a.sum()) of an np.int64 array.
RECURSIVE Sum64Over(_, _)
Sum64Over(m, S) ==
    IF S = {} THEN AsInt64(0)
    ELSE LET c == CHOOSE c \in S : TRUE
         IN  Add64(m[c], Sum64Over(m, S \ {c}))

Sum64(m) == Sum64Over(m, DOMAIN m)

\* ------------------------------------------------------------- floats
\* A float is held as the number it stands for; the sums of the model are
\* non-negative integers, held as 64-bit words.
\* The bits of a word, least significant first.
Bits(w) ==
    [j \in 1 .. 64 |-> (w[((j - 1) \div 16) + 1] \div (2 ^ ((j - 1) % 16))) % 2]

FromBits(b) ==
    [l \in 1 .. 4 |->
        LET W16(j) == b[16 * (l - 1) + j] * (2 ^ (j - 1))
        IN  W16(1) + W16(2) + W16(3) + W16(4) + W16(5) + W16(6) + W16(7)
              + W16(8) + W16(9) + W16(10) + W16(11) + W16(12) + W16(13)
              + W16(14) + W16(15) + W16(16)]

\* The non-negative integer w rounded to p significant bits, ties to even:
\* the conversion of an integer to a float with a p-bit significand.
RoundToBits(w, p) ==
    LET b   == Bits(w)
        Set == {j \in 1 .. 64 : b[j] = 1}
        top == IF Set = {} THEN 0 ELSE CHOOSE j \in Set : \A k \in Set : k <= j
        s   == top - p
    IN  IF s <= 0 THEN w
        ELSE LET kept   == FromBits([j \in 1 .. 64 |-> IF j <= s THEN 0 ELSE b[j]])
                 half   == b[s] = 1
                 sticky == \E j \in 1 .. s - 1 : b[j] = 1
                 odd    == b[s + 1] = 1
                 ulp    == FromBits([j \in 1 .. 64 |-> IF j = s + 1 THEN 1 ELSE 0])
             IN  IF half /\ (sticky \/ odd) THEN Add64(kept, ulp) ELSE kept

\* astype(np.float64) / astype(np.float32) of an integer.
Float64(w) == RoundToBits(w, 53)
Float32(w) == RoundToBits(w, 24)

\* ------------------------------------------------------------------ inputs
\* One instance_XXXXX.npz as the orchestrator writes it
\* (02_run_pypibt_collect.py lines 254-262: three int32 arrays of the map's
\* shape, the uint8 mask, H, W, makespan), with its .meta.json sidecar:
\* has_meta says whether the sidecar exists, solved is its metrics.solved.
\* The shapes of the maps.
Shapes == {<<1, 2>>, <<1, 1>>}

Big == 2 ^ 30

\* Counts of a run: <<the wait count of cell (0,0), the pressure of the
\* other cells>>; small counts, and counts near the top of the int32 range.
CountProfiles == {<<1, 1>>, <<Big, 2>>, <<2, Big>>}

Bundle(shape, pr, mk, hm, sv) ==
    [H |-> shape[1],
     W |-> shape[2],
     wait_map |-> [c \in Index(shape[1], shape[2]) |->
                     IF c = <<0, 0>> THEN pr[1] ELSE 1],
     collision_map |-> [c \in Index(shape[1], shape[2]) |->
                          IF c = <<0, 0>> THEN 0 ELSE pr[2]],
     occupancy_map |-> [c \in Index(shape[1], shape[2]) |->
                          IF c = <<0, 0>> THEN pr[1] + 1 ELSE 2],
     obstacles |-> Zeros(shape[1], shape[2]),
     makespan |-> mk,
     has_meta |-> hm,
     solved |-> sv]

Bundles ==
    {Bundle(shape, pr, mk, TRUE, sv) :
        shape \in Shapes, pr \in CountProfiles, mk \in {1, 2}, sv \in {0, 1}}
    \cup
    {Bundle(shape, pr, mk, FALSE, 0) :
        shape \in Shapes, pr \in CountProfiles, mk \in {1, 2}}

\* Lines 28-31: --only_solved and --log1p are store_true flags with default
\* True, so both are always True; alpha and beta default to 0.0 and 1.0.
Args ==
    {[only_solved |-> TRUE, alpha |-> w[1], beta |-> w[2], log1p |-> TRUE] :
        w \in {<<0, 1>>, <<1, 1>>}}

AggInit ==
    /\ npz_files \in UNION {[1 .. n -> Bundles] : n \in 0 .. MaxRuns}
    /\ args \in Args
    /\ agg_pc = "start"
    /\ agg_err = "none"
    /\ fk = 0
    /\ acc = <<>>
    /\ makespans = <<>>
    /\ used = <<>>
    /\ solved_cnt = 0
    /\ out = <<>>
    /\ HeatmapIdle
    /\ ParserIdle
    /\ ParkedIdle
    /\ BfsIdle
    /\ ExporterIdle

\* --------------------------------------------------- load_npz (lines 8-18)
load_npz(b) ==
    [wait |-> [c \in DOMAIN b.wait_map |-> AsInt64(b.wait_map[c])],
     pressure |-> [c \in DOMAIN b.collision_map |-> AsInt64(b.collision_map[c])],
     occ |-> [c \in DOMAIN b.occupancy_map |-> AsInt64(b.occupancy_map[c])],
     obstacles |-> b.obstacles,
     H |-> b.H,
     W |-> b.W,
     makespan |-> b.makespan]

\* np.zeros((H, W), dtype=np.int64)
Zeros64(h, w) == [c \in Index(h, w) |-> AsInt64(0)]

\* ------------------------------------------------------ main (lines 20-110)
\* Lines 39-41.
AggNoFiles ==
    /\ agg_pc = "start"
    /\ npz_files = <<>>
    /\ agg_pc' = "raised"
    /\ agg_err' = "No npz found"
    /\ UNCHANGED <<npz_files, args, fk, acc, makespans, used, solved_cnt, out>>
    /\ UNCHANGED <<heatVars, parseVars, parkVars, bfsVars, expVars>>

\* Lines 55-61: the running sums, zero, in the shape of the first file.
StartAcc(files) ==
    LET first == load_npz(files[1])
    IN  [H |-> first.H,
         W |-> first.W,
         wait_sum |-> Zeros64(first.H, first.W),
         pressure_sum |-> Zeros64(first.H, first.W),
         occ_sum |-> Zeros64(first.H, first.W),
         obstacles |-> first.obstacles,
         raw |-> <<>>]

\* Lines 43-63.
AggStart ==
    /\ agg_pc = "start"
    /\ npz_files # <<>>
    /\ acc' = StartAcc(npz_files)
    /\ makespans' = <<>>
    /\ used' = <<>>
    /\ solved_cnt' = 0
    /\ fk' = 0
    /\ agg_pc' = "loop"
    /\ UNCHANGED <<npz_files, args, agg_err, out>>
    /\ UNCHANGED <<heatVars, parseVars, parkVars, bfsVars, expVars>>

\* The file the loop is at.
CurFile == npz_files[fk + 1]

\* Fault variant of CountSolved: every run with a sidecar is counted.
CountSolved_any_meta(run, cnt) ==
    IF run.has_meta THEN cnt + 1 ELSE cnt

\* Lines 67-71: solved_cnt after the sidecar has been read.
CountSolved(run, cnt) ==
    IF run.has_meta /\ run.solved = 1 THEN cnt + 1 ELSE cnt

\* Lines 67, 72: the run is passed over.
Filtered(run, only_solved) ==
    run.has_meta /\ only_solved /\ run.solved # 1

\* Fault variant of ShapeMismatch: "and" for "or".
ShapeMismatch_both(d, h, w) == d.H # h /\ d.W # w

\* Line 77.
ShapeMismatch(d, h, w) == d.H # h \/ d.W # w

\* numpy's a += b: b is broadcast to the shape of a when each of its axes
\* has a's length or length 1.
Broadcastable(a, b) ==
    /\ ShapeH(b) \in {ShapeH(a), 1}
    /\ ShapeW(b) \in {ShapeW(a), 1}

AddArr(a, b) ==
    [c \in DOMAIN a |->
        Add64(a[c], b[<<IF ShapeH(b) = 1 THEN 0 ELSE c[1],
                        IF ShapeW(b) = 1 THEN 0 ELSE c[2]>>])]

\* Fault variant of FoldRun: wait_sum is assigned, not added to.
FoldRun_assign(a, d) ==
    [a EXCEPT !.wait_sum = AddArr(Zeros64(a.H, a.W), d.wait),
              !.pressure_sum = AddArr(@, d.pressure),
              !.occ_sum = AddArr(@, d.occ)]

\* Lines 80-82.
FoldRun(a, d) ==
    [a EXCEPT !.wait_sum = AddArr(@, d.wait),
              !.pressure_sum = AddArr(@, d.pressure),
              !.occ_sum = AddArr(@, d.occ)]

\* Lines 66-73: continue.
AggSkip ==
    /\ agg_pc = "loop"
    /\ fk < Len(npz_files)
    /\ Filtered(CurFile, args.only_solved)
    /\ solved_cnt' = CountSolved(CurFile, solved_cnt)
    /\ fk' = fk + 1
    /\ UNCHANGED <<npz_files, args, agg_pc, agg_err, acc, makespans, used, out>>
    /\ UNCHANGED <<heatVars, parseVars, parkVars, bfsVars, expVars>>

\* Lines 75-78: "Shape mismatch".
AggRaiseShape ==
    /\ agg_pc = "loop"
    /\ fk < Len(npz_files)
    /\ ~Filtered(CurFile, args.only_solved)
    /\ ShapeMismatch(load_npz(CurFile), acc.H, acc.W)
    /\ solved_cnt' = CountSolved(CurFile, solved_cnt)
    /\ agg_pc' = "raised"
    /\ agg_err' = "Shape mismatch"
    /\ UNCHANGED <<npz_files, args, fk, acc, makespans, used, out>>
    /\ UNCHANGED <<heatVars, parseVars, parkVars, bfsVars, expVars>>

\* Lines 75-84: the run is folded in.  An array numpy cannot broadcast to
\* the shape of the sums makes the first += raise.
AggFold ==
    /\ agg_pc = "loop"
    /\ fk < Len(npz_files)
    /\ ~Filtered(CurFile, args.only_solved)
    /\ ~ShapeMismatch(load_npz(CurFile), acc.H, acc.W)
    /\ solved_cnt' = CountSolved(CurFile, solved_cnt)
    /\ LET d == load_npz(CurFile)
       IN  IF Broadcastable(acc.wait_sum, d.wait)
           THEN /\ acc' = FoldRun(acc, d)
                /\ makespans' = Append(makespans, d.makespan)
                /\ used' = Append(used, fk + 1)
                /\ fk' = fk + 1
                /\ UNCHANGED <<agg_pc, agg_err>>
           ELSE /\ agg_pc' = "raised"
                /\ agg_err' = "operands could not be broadcast together"
                /\ UNCHANGED <<acc, makespans, used, fk>>
    /\ UNCHANGED <<npz_files, args, out>>
    /\ UNCHANGED <<heatVars, parseVars, parkVars, bfsVars, expVars>>

\* A quotient of two floats is held as the pair it divides; den = 0 stands
\* for None.
Quotient(n, d) == [num |-> n, den |-> d]
None == [num |-> 0, den |-> 0]

RECURSIVE SumSeq(_)
SumSeq(q) == IF q = <<>> THEN 0 ELSE Head(q) + SumSeq(Tail(q))

\* Line 87.
SolvedRate(cnt, total) == Quotient(cnt, total)

\* Line 88: float(np.mean(makespans)) if makespans else None.
AvgMakespan(ms) == IF ms = <<>> THEN None ELSE Quotient(SumSeq(ms), Len(ms))

\* a * x for a weight a of 0.0 or 1.0 and a float x.
FMul(a, x) == IF a = 0 THEN AsInt64(0) ELSE x

\* Fault variant of Raw: the two weights are exchanged.
Raw_weights_swapped(al, be, ws, ps) ==
    [c \in DOMAIN ws |->
        Float64(Add64(FMul(be, Float64(ws[c])), FMul(al, Float64(ps[c]))))]

\* Line 98: raw = args.alpha * wait_sum + args.beta * pressure_sum, float64.
Raw(al, be, ws, ps) ==
    [c \in DOMAIN ws |->
        Float64(Add64(FMul(al, Float64(ws[c])), FMul(be, Float64(ps[c]))))]

\* Lines 99-102: the field as float32, under log1p when the flag is set;
\* log1p(x) is held as the pair of the flag and x.
PRaw(raw, use_log1p) ==
    [c \in DOMAIN raw |-> [log1p |-> use_log1p, x |-> Float32(raw[c])]]

\* a.astype(np.int32) of an np.int64 array.
ArrInt32(a) == [c \in DOMAIN a |-> AsInt32(a[c])]

\* Lines 86-95.
Stats ==
    [num_instances_total |-> Len(npz_files),
     num_instances_used |-> Len(used),
     solved_rate |-> SolvedRate(solved_cnt, Len(npz_files)),
     avg_makespan_used |-> AvgMakespan(makespans),
     sum_wait_total |-> Sum64(acc.wait_sum),
     sum_pressure_total |-> Sum64(acc.pressure_sum),
     sum_occ_total |-> Sum64(acc.occ_sum),
     alpha |-> args.alpha,
     beta |-> args.beta,
     log1p |-> args.log1p,
     used_instances |-> SubSeq(used, 1, IF Len(used) < 200 THEN Len(used)
                                        ELSE 200)]

\* Lines 86-110: the loop is through; statistics, P_raw, the six files.
AggFinish ==
    /\ agg_pc = "loop"
    /\ fk = Len(npz_files)
    /\ LET raw == Raw(args.alpha, args.beta, acc.wait_sum, acc.pressure_sum)
       IN  /\ acc' = [acc EXCEPT !.raw = raw]
           /\ out' = [wait_sum |-> ArrInt32(acc.wait_sum),
                      pressure_sum |-> ArrInt32(acc.pressure_sum),
                      occ_sum |-> ArrInt32(acc.occ_sum),
                      obstacles |-> acc.obstacles,
                      p_raw |-> PRaw(raw, args.log1p),
                      aggregate_meta |-> Stats]
    /\ agg_pc' = "done"
    /\ UNCHANGED <<npz_files, args, agg_err, fk, makespans, used, solved_cnt>>
    /\ UNCHANGED <<heatVars, parseVars, parkVars, bfsVars, expVars>>

AggNext ==
    \/ AggNoFiles
    \/ AggStart
    \/ AggSkip
    \/ AggRaiseShape
    \/ AggFold
    \/ AggFinish

AggSpec == AggInit /\ [][AggNext]_vars

\* The loop of lines 65-84 as a function of the files: from file k + 1 on,
\* with the sums a; the position it ends in and the sums.
RECURSIVE FoldFrom(_, _, _, _)
FoldFrom(files, only_solved, k, a) ==
    IF k = Len(files) THEN [pc |-> "done", acc |-> a]
    ELSE LET run == files[k + 1]
             d   == load_npz(run)
         IN  IF Filtered(run, only_solved)
             THEN FoldFrom(files, only_solved, k + 1, a)
             ELSE IF ShapeMismatch(d, a.H, a.W)
             THEN [pc |-> "raised", acc |-> a]
             ELSE IF ~Broadcastable(a.wait_sum, d.wait)
             THEN [pc |-> "raised", acc |-> a]
             ELSE FoldFrom(files, only_solved, k + 1, FoldRun(a, d))

\* Lines 55-84, for a non-empty list of files.
FoldAll(files, only_solved) == FoldFrom(files, only_solved, 0, StartAcc(files))

\* ---------------------------------------------------- aggregator properties
AggDone == agg_pc = "done"

Files == 1 .. Len(npz_files)

\* The run is solved: its sidecar says so (what solved_cnt counts).
IsSolved(run) == run.has_meta /\ run.solved = 1

\* The runs the loop does not pass over.
Taken == {k \in Files : ~npz_files[k].has_meta \/ npz_files[k].solved = 1}

\* The exact sum, cell by cell, of the arrays named field of the runs K, on
\* the cells of the sums; exact as long as it stays below 2^63.
RECURSIVE SumRuns(_, _)
SumRuns(field, K) ==
    IF K = {} THEN [c \in DOMAIN acc.wait_sum |-> AsInt64(0)]
    ELSE LET k == CHOOSE k \in K : TRUE
             r == SumRuns(field, K \ {k})
         IN  [c \in DOMAIN acc.wait_sum |->
                Add64(AsInt64(npz_files[k][field][c]), r[c])]

\* The elements of the set K of numbers in ascending order.
RECURSIVE Ascending(_)
Ascending(K) ==
    IF K = {} THEN <<>>
    ELSE LET m == CHOOSE m \in K : \A j \in K : j <= m
         IN  Append(Ascending(K \ {m}), m)

\* C15: with the only-solved filter enabled, the sums hold contributions of
\* solved runs only: every run that is not solved is skipped, changing
\* neither the sums nor the used-run list, and is still counted in
\* num_instances_total.
C15_OnlySolvedRunsFolded ==
    (agg_pc \in {"loop", "done"} /\ args.only_solved) =>
        LET Seen == {k \in 1 .. fk : IsSolved(npz_files[k])}
        IN  /\ \A j \in 1 .. Len(used) : IsSolved(npz_files[used[j]])
            /\ acc.wait_sum = SumRuns("wait_map", Seen)
            /\ acc.pressure_sum = SumRuns("collision_map", Seen)
            /\ acc.occ_sum = SumRuns("occupancy_map", Seen)
            /\ AggDone =>
                  out.aggregate_meta.num_instances_total = Len(npz_files)

\* The run's three arrays have the shape of the sums.
SameShape(run) ==
    /\ DOMAIN run.wait_map = DOMAIN acc.wait_sum
    /\ DOMAIN run.collision_map = DOMAIN acc.pressure_sum
    /\ DOMAIN run.occupancy_map = DOMAIN acc.occ_sum

\* C16: every run folded into the sums has wait, pressure and occupancy
\* arrays of the accumulator's H x W; a run that is not passed over and whose
\* dimensions differ makes the aggregation fail with the shape-mismatch
\* error, and a failed aggregation has written no output.
C16_ShapeMismatchFails ==
    /\ [](agg_pc \in {"loop", "done"} =>
            \A j \in 1 .. Len(used) : SameShape(npz_files[used[j]]))
    /\ [](agg_pc = "raised" => out = <<>>)
    /\ [][ (agg_pc = "loop" /\ fk < Len(npz_files) /\ fk + 1 \in Taken
               /\ ~SameShape(npz_files[fk + 1])) =>
              /\ agg_pc' = "raised"
              /\ agg_err' = "Shape mismatch"
              /\ acc' = acc
              /\ used' = used
              /\ out' = <<>> ]_vars

\* A run was folded in, then a run of another width stopped the aggregation.
C16_Witness ==
    /\ agg_pc = "raised"
    /\ agg_err = "Shape mismatch"
    /\ Len(used) = 1
    /\ npz_files[fk + 1].H = acc.H
    /\ npz_files[fk + 1].W # acc.W
    /\ out = <<>>

\* The permutations of 1 .. n.
Perms(n) == {q \in [1 .. n -> 1 .. n] : \A a, b \in 1 .. n : a # b => q[a] # q[b]}

\* C17: for files whose arrays all have one shape, folding them in any
\* order gives the wait_sum, pressure_sum and occ_sum the run has computed.
C17_OrderIndependent ==
    (AggDone /\ \A k \in Files : SameShape(npz_files[k])) =>
        \A q \in Perms(Len(npz_files)) :
            LET o == FoldAll([k \in Files |-> npz_files[q[k]]], args.only_solved)
            IN  /\ o.pc = "done"
                /\ o.acc.wait_sum = acc.wait_sum
                /\ o.acc.pressure_sum = acc.pressure_sum
                /\ o.acc.occ_sum = acc.occ_sum

\* Two runs with different arrays were folded.
C17_Witness ==
    /\ AggDone
    /\ Len(used) = 2
    /\ npz_files[1].W = 2
    /\ npz_files[2].W = 2
    /\ npz_files[1].wait_map # npz_files[2].wait_map
    /\ npz_files[1].collision_map # npz_files[2].collision_map

\* C18: after all runs of a map are processed, solved_rate is the number of
\* solved runs over the number of runs seen, and avg_makespan_used is the
\* mean makespan over exactly the runs folded into the sums (None when no
\* run was used).
C18_RateAndAverage ==
    AggDone =>
        LET st == out.aggregate_meta
            nsolved == Cardinality({k \in Files : IsSolved(npz_files[k])})
            mk == [k \in Files |-> npz_files[k].makespan]
        IN  /\ st.solved_rate.den # 0
            /\ st.solved_rate.num * Len(npz_files) = nsolved * st.solved_rate.den
            /\ used = Ascending(Taken)
            /\ st.num_instances_used = Cardinality(Taken)
            /\ acc.wait_sum = SumRuns("wait_map", Taken)
            /\ IF Taken = {} THEN st.avg_makespan_used = None
               ELSE /\ st.avg_makespan_used.den # 0
                    /\ st.avg_makespan_used.num * Cardinality(Taken)
                          = SumOf(mk, Taken) * st.avg_makespan_used.den

\* One solved run of makespan 1 and one run without a sidecar of makespan 2:
\* the rate is 1/2, the mean 3/2.
C18_Witness ==
    /\ AggDone
    /\ Len(npz_files) = 2
    /\ out.aggregate_meta.solved_rate = Quotient(1, 2)
    /\ out.aggregate_meta.avg_makespan_used = Quotient(3, 2)

\* The files with the wait count of cell (0,0) of the k-th set to v.
WithWait(k, v) ==
    [npz_files EXCEPT ![k].wait_map[<<0, 0>>] = v]

\* C19: with alpha = 0 and beta = 1, raw (P_raw before compression) equals
\* pressure_sum cell by cell, and P_raw is the same for any other wait
\* counts of the runs, their pressure arrays being the same.
C19_DefaultWeightsPressureOnly ==
    (AggDone /\ args.alpha = 0 /\ args.beta = 1) =>
        /\ \A c \in DOMAIN acc.pressure_sum : acc.raw[c] = acc.pressure_sum[c]
        /\ out.p_raw = PRaw([c \in DOMAIN acc.pressure_sum |->
                                Float64(acc.pressure_sum[c])], args.log1p)
        /\ \A k \in Files : \A v \in {0, 1, 2, Big} :
              LET o == FoldAll(WithWait(k, v), args.only_solved)
              IN  /\ o.pc = "done"
                  /\ PRaw(Raw(args.alpha, args.beta, o.acc.wait_sum,
                              o.acc.pressure_sum), args.log1p) = out.p_raw

\* Default weights, and sums that differ from one another.
C19_Witness ==
    /\ AggDone
    /\ args.alpha = 0
    /\ args.beta = 1
    /\ Len(used) = 2
    /\ acc.W = 2
    /\ \A c \in DOMAIN acc.wait_sum : acc.wait_sum[c] # acc.pressure_sum[c]
    /\ acc.pressure_sum[<<0, 1>>] = Add64(AsInt64(Big), AsInt64(2))

\* C20: the wait_sum, pressure_sum and occ_sum arrays written equal, cell by
\* cell, the exact integer sum of the arrays of all used runs, whatever the
\* number of runs and their counts.
C20_SavedSumsExact ==
    AggDone =>
        \A c \in DOMAIN acc.wait_sum :
            /\ AsInt64(out.wait_sum[c]) = SumRuns("wait_map", Taken)[c]
            /\ AsInt64(out.pressure_sum[c]) = SumRuns("collision_map", Taken)[c]
            /\ AsInt64(out.occ_sum[c]) = SumRuns("occupancy_map", Taken)[c]

\* ===================================================================
\* Invariants of the heat maps of one run (Spec)
\* ===================================================================

\* C25: a trajectory holding positions outside the grid raises no error (the
\* only errors are the empty trajectory and the goal count), and no (t, agent)
\* iteration whose position lies outside the grid changes any cell of
\* wait_map, collision_map or occupancy_map: a negative coordinate does not
\* wrap around to another cell.
C25_OutOfBoundsContributesNothing ==
    /\ [](pc = "error" => IF NumT = 0 THEN TRUE ELSE Len(goals) # NumN)
    /\ [][ (pc \in {"occ", "wait"} /\ ~InGrid(paths[t + 1][i + 1])) =>
              /\ wait_map' = wait_map
              /\ collision_map' = collision_map
              /\ occupancy_map' = occupancy_map
              /\ pc' # "error"
              /\ err' = "none" ]_vars

\* An agent spent a whole run waiting at x = -1, away from its goal: two
\* stay steps were counted in total_wait and every map is zero.
C25_Witness ==
    /\ Computed
    /\ Len(goals) = 1
    /\ NumT = 3
    /\ \A k \in 1 .. 3 : paths[k][1] = <<-1, 0>>
    /\ ReachTime(1) = INF
    /\ details.total_wait = 2
    /\ NpSum(wait_map) = 0
    /\ NpSum(collision_map) = 0
    /\ NpSum(occupancy_map) = 0

\* The (timestep, agent) pairs, timestep 1-based, at which the agent has not
\* yet reached its goal and stays in place.
PreGoalWaits ==
    {ka \in (1 .. NumT - 1) \X Agents :
        ka[1] - 1 < ReachTime(ka[2]) /\ Stays(ka[2], ka[1])}

\* The position of the pair ka is off the grid, on an obstacle, or at infinite
\* distance from the agent's goal.
NoIntention(ka) ==
    LET cur == paths[ka[1]][ka[2]]
    IN  \/ ~InGrid(cur)
        \/ obstacles[<<cur[2], cur[1]>>] # 0
        \/ dist_cache[goals[ka[2]]][<<cur[2], cur[1]>>] >= INF

\* C28: in every run total_blocked <= total_wait, and total_wait exceeds
\* total_blocked by exactly the number of pre-goal wait steps taken on a
\* position that is out of bounds, an obstacle or at infinite distance from
\* the agent's goal; every other pre-goal wait step adds exactly one unit of
\* pressure.
C28_BlockedIsWaitWithIntention ==
    /\ [](Computed =>
            /\ details.total_blocked <= details.total_wait
            /\ details.total_wait - details.total_blocked
                 = Cardinality({ka \in PreGoalWaits : NoIntention(ka)}))
    /\ [][ (pc = "wait" /\ <<t + 1, i + 1>> \in PreGoalWaits
                /\ ~NoIntention(<<t + 1, i + 1>>)) =>
              /\ total_blocked' = total_blocked + 1
              /\ NpSum(collision_map') = NpSum(collision_map) + 1 ]_vars

\* An agent waited twice on a free cell that obstacles cut off from its free
\* in-bounds goal: two waits, no pressure.
C28_Witness ==
    /\ Computed
    /\ Len(goals) = 1
    /\ InGrid(goals[1])
    /\ obstacles[<<goals[1][2], goals[1][1]>>] = 0
    /\ InGrid(paths[1][1])
    /\ obstacles[<<paths[1][1][2], paths[1][1][1]>>] = 0
    /\ Cardinality({ka \in PreGoalWaits : NoIntention(ka)}) = 2
    /\ details.total_wait = 2
    /\ details.total_blocked = 0

\* C29: every increment of collision_map is an increment by one, made for a
\* waiting agent, of a cell that is in bounds, not an obstacle, 4-adjacent to
\* the agent's current cell and whose distance to the agent's goal is the
\* current cell's distance minus one; collision_map is zero on every obstacle
\* cell, and an obstacle cell has infinite distance in every field of the
\* run, so the obstacle test on the current cell never decides anything the
\* distance test would not.
C29_PressureLandsOneStepCloser ==
    /\ [](pc \notin {"idle", "init", "error"} =>
            \A c \in Index(H, W) :
                obstacles[c] # 0 =>
                    /\ collision_map[c] = 0
                    /\ \A g \in DOMAIN dist_cache : dist_cache[g][c] >= INF)
    /\ [][ \A c \in DOMAIN collision_map :
              collision_map'[c] # collision_map[c] =>
                 LET cur == paths[t + 1][i + 1]
                     d   == dist_cache[goals[i + 1]]
                 IN  /\ pc = "wait"
                     /\ collision_map'[c] = collision_map[c] + 1
                     /\ Stays(i + 1, t + 1)
                     /\ c \in Index(H, W)
                     /\ obstacles[c] = 0
                     /\ InGrid(cur)
                     /\ Adjacent(cur, <<c[2], c[1]>>)
                     /\ d[c] = d[<<cur[2], cur[1]>>] - 1 ]_vars

\* An agent waited next to an obstacle that comes first in the neighbour
\* order; the pressure went to another neighbour.
C29_Witness ==
    /\ Computed
    /\ Len(goals) = 1
    /\ NumT = 2
    /\ paths[1][1] = paths[2][1]
    /\ InGrid(paths[1][1])
    /\ InGrid(<<paths[1][1][1] + 1, paths[1][1][2]>>)
    /\ obstacles[<<paths[1][1][2], paths[1][1][1] + 1>>] = 1
    /\ collision_map[<<paths[1][1][2], paths[1][1][1] + 1>>] = 0
    /\ NpSum(collision_map) = 1

\* C30: in every run, from the creation of the maps on, all three maps have
\* exactly the index space H x W and no negative entry, and for every cell
\* 0 <= wait_map[c] <= occupancy_map[c].
C30_WaitWithinOccupancy ==
    pc \notin {"idle", "init", "error"} =>
        /\ DOMAIN wait_map = Index(H, W)
        /\ DOMAIN collision_map = Index(H, W)
        /\ DOMAIN occupancy_map = Index(H, W)
        /\ \A c \in Index(H, W) :
              /\ 0 <= wait_map[c]
              /\ wait_map[c] <= occupancy_map[c]
              /\ 0 <= collision_map[c]

\* An agent waited once on a cell, moved on to its goal and stayed there:
\* one wait within two visits on the first cell, the goal visited once with
\* no wait counted.
C30_Witness ==
    /\ Computed
    /\ Len(goals) = 1
    /\ NumT = 3
    /\ paths[1][1] = paths[2][1]
    /\ paths[3][1] = goals[1]
    /\ paths[2][1] # goals[1]
    /\ InGrid(paths[1][1])
    /\ InGrid(goals[1])
    /\ wait_map[<<paths[1][1][2], paths[1][1][1]>>] = 1
    /\ occupancy_map[<<paths[1][1][2], paths[1][1][1]>>] = 2
    /\ occupancy_map[<<goals[1][2], goals[1][1]>>] = 1
    /\ wait_map[<<goals[1][2], goals[1][1]>>] = 0

\* ===================================================================
\* _bfs_dist step by step (src/src/praw/stats_wait_collision.py 59-88)
\* One call on any obstacle mask and any goal, one iteration of "while q"
\* per step.
\* ===================================================================

BfsInit ==
    /\ bfs_obstacles \in Masks(MaxObst)
    /\ bfs_goal \in Pos
    /\ bfs = <<>>
    /\ bfs_pc = "entry"
    /\ HeatmapIdle
    /\ ParserIdle
    /\ AggregatorIdle
    /\ ParkedIdle
    /\ ExporterIdle

\* Lines 65-66: the goal is off the grid.
GoalOffGrid(obs, goal) ==
    ~(0 <= goal[1] /\ goal[1] < ShapeW(obs) /\ 0 <= goal[2] /\ goal[2] < ShapeH(obs))

\* Lines 61-68: the all-INF field for a goal off the grid or on an obstacle.
BfsReturnInf ==
    /\ bfs_pc = "entry"
    /\ IF GoalOffGrid(bfs_obstacles, bfs_goal) THEN TRUE
       ELSE bfs_obstacles[<<bfs_goal[2], bfs_goal[1]>>] # 0
    /\ bfs' = [dist |-> InfField(bfs_obstacles), q |-> <<>>]
    /\ bfs_pc' = "done"
    /\ UNCHANGED <<bfs_obstacles, bfs_goal>>
    /\ UNCHANGED <<heatVars, parseVars, aggVars, parkVars, expVars>>

\* Lines 61-72: the root gets distance 0 and is enqueued.
BfsRoot ==
    /\ bfs_pc = "entry"
    /\ ~GoalOffGrid(bfs_obstacles, bfs_goal)
    /\ bfs_obstacles[<<bfs_goal[2], bfs_goal[1]>>] = 0
    /\ bfs' = [dist |-> [InfField(bfs_obstacles)
                            EXCEPT ![<<bfs_goal[2], bfs_goal[1]>>] = 0],
               q    |-> <<bfs_goal>>]
    /\ bfs_pc' = "loop"
    /\ UNCHANGED <<bfs_obstacles, bfs_goal>>
    /\ UNCHANGED <<heatVars, parseVars, aggVars, parkVars, expVars>>

\* Lines 73-87: one iteration of the while loop.
BfsIter ==
    /\ bfs_pc = "loop"
    /\ bfs.q # <<>>
    /\ bfs' = BfsStep(bfs_obstacles, bfs)
    /\ UNCHANGED <<bfs_obstacles, bfs_goal, bfs_pc>>
    /\ UNCHANGED <<heatVars, parseVars, aggVars, parkVars, expVars>>

\* Lines 73, 88: the queue is empty, the field is returned.
BfsExit ==
    /\ bfs_pc = "loop"
    /\ bfs.q = <<>>
    /\ bfs_pc' = "done"
    /\ UNCHANGED <<bfs_obstacles, bfs_goal, bfs>>
    /\ UNCHANGED <<heatVars, parseVars, aggVars, parkVars, expVars>>

BfsNext ==
    \/ BfsReturnInf
    \/ BfsRoot
    \/ BfsIter
    \/ BfsExit

\* The call runs on: nothing suspends the loop.
BfsSpec == BfsInit /\ [][BfsNext]_vars /\ WF_vars(BfsNext)

\* ----------------------------------------------------------- properties
\* The four positions next to p, on or off the grid.
Around(p) == {<<p[1] - 1, p[2]>>, <<p[1] + 1, p[2]>>,
              <<p[1], p[2] - 1>>, <<p[1], p[2] + 1>>}

\* The position n is in bounds, no obstacle and still at INF in the field d.
Expandable(n, d) ==
    /\ ~GoalOffGrid(bfs_obstacles, n)
    /\ bfs_obstacles[<<n[2], n[1]>>] = 0
    /\ d[<<n[2], n[1]>>] >= INF

\* The positions the sequence s holds.
Range(s) == {s[k] : k \in 1 .. Len(s)}

\* C27: in every iteration of the while loop of _bfs_dist, a neighbour of the
\* cell taken from the queue is assigned a distance and enqueued if and only
\* if it is in bounds, not an obstacle and not yet assigned a finite
\* distance; the value assigned is the current cell's distance plus one; no
\* finite distance is ever overwritten (the source's test "stored distance >
\* current + 1" fails on every finite stored distance), so each cell is
\* assigned and enqueued at most once; and the search terminates with an
\* empty queue.
C27_BfsExpandsEachCellOnce ==
    /\ [][ bfs_pc = "loop" /\ bfs.q # <<>> =>
              LET cur == Head(bfs.q)
                  d   == bfs.dist[<<cur[2], cur[1]>>] + 1
                  New == {n \in Around(cur) : Expandable(n, bfs.dist)}
              IN  /\ \A n \in Around(cur) :
                        (~GoalOffGrid(bfs_obstacles, n)
                            /\ bfs.dist[<<n[2], n[1]>>] < INF) =>
                                bfs.dist[<<n[2], n[1]>>] <= d
                  /\ \A c \in DOMAIN bfs.dist :
                        IF <<c[2], c[1]>> \in New
                        THEN bfs'.dist[c] = d
                        ELSE bfs'.dist[c] = bfs.dist[c]
                  /\ Len(bfs'.q) = Len(bfs.q) - 1 + Cardinality(New)
                  /\ SubSeq(bfs'.q, 1, Len(bfs.q) - 1) = Tail(bfs.q)
                  /\ {bfs'.q[k] : k \in Len(bfs.q) .. Len(bfs'.q)} = New ]_vars
    /\ [](bfs_pc = "loop" =>
            /\ \A j, k \in 1 .. Len(bfs.q) : j # k => bfs.q[j] # bfs.q[k]
            /\ \A n \in Range(bfs.q) : bfs.dist[<<n[2], n[1]>>] < INF)
    /\ [](bfs_pc = "done" => bfs.q = <<>>)
    /\ <>(bfs_pc = "done")

\* The cell at the head of the queue has a neighbour off the grid, an
\* obstacle neighbour, a neighbour that already holds a finite distance and
\* a free neighbour still at INF.
C27_Witness ==
    /\ bfs_pc = "loop"
    /\ bfs.q # <<>>
    /\ \E n \in Around(Head(bfs.q)) : GoalOffGrid(bfs_obstacles, n)
    /\ \E n \in Around(Head(bfs.q)) :
          ~GoalOffGrid(bfs_obstacles, n) /\ bfs_obstacles[<<n[2], n[1]>>] = 1
    /\ \E n \in Around(Head(bfs.q)) :
          ~GoalOffGrid(bfs_obstacles, n) /\ bfs.dist[<<n[2], n[1]>>] < INF
    /\ \E n \in Around(Head(bfs.q)) : Expandable(n, bfs.dist)

\* ===================================================================
\* Two runs of compute_wait_collision_heatmaps on one grid, interleaved.
\* The obstacle mask, H and W are shared; everything else is an argument or
\* a local of a call: one call executes on the run variables while the
\* other's frame is parked, and a switch may happen between any two loop
\* iterations.
\* ===================================================================

\* The arguments and locals of the executing call.
Frame ==
    [paths |-> paths, goals |-> goals, pc |-> pc, err |-> err,
     reach_t |-> reach_t, dist_cache |-> dist_cache, wait_map |-> wait_map,
     collision_map |-> collision_map, occupancy_map |-> occupancy_map,
     total_wait |-> total_wait, total_blocked |-> total_blocked,
     t |-> t, i |-> i, details |-> details]

\* The frame of a call that has not started: lines 106-112.
Entry(ps, gs) ==
    [paths |-> ps, goals |-> gs, pc |-> "init", err |-> "none",
     reach_t |-> <<>>, dist_cache |-> <<>>, wait_map |-> <<>>,
     collision_map |-> <<>>, occupancy_map |-> <<>>,
     total_wait |-> 0, total_blocked |-> 0, t |-> 0, i |-> 0,
     details |-> <<>>]

\* One run of a single agent over two timesteps on any cells of the grid,
\* any goal; the other run is an agent standing still, its goal in a corner.
InterleavedInit ==
    /\ H = GridH
    /\ W = GridW
    /\ obstacles \in Masks(MaxObst - 1)
    /\ \E w \in [1 .. 1 -> Walks(2, InCells)] : paths = TimeMajor(w, 2)
    /\ goals \in [1 .. 1 -> InCells]
    /\ \E c \in InCells, g \in {<<0, 0>>, <<GridW - 1, GridH - 1>>} :
          parked = Entry(<< <<c>>, <<c>> >>, <<g>>)
    /\ pc = "init"
    /\ err = "none"
    /\ reach_t = <<>>
    /\ dist_cache = <<>>
    /\ wait_map = <<>>
    /\ collision_map = <<>>
    /\ occupancy_map = <<>>
    /\ total_wait = 0
    /\ total_blocked = 0
    /\ t = 0
    /\ i = 0
    /\ details = <<>>
    /\ metrics = <<>>
    /\ ParserIdle
    /\ AggregatorIdle
    /\ BfsIdle
    /\ ExporterIdle

\* Fault variant of Switch: the memo table is one table of the module,
\* shared by the calls.
Switch_shared_table ==
    /\ parked' = Frame
    /\ paths' = parked.paths
    /\ goals' = parked.goals
    /\ pc' = parked.pc
    /\ err' = parked.err
    /\ reach_t' = parked.reach_t
    /\ wait_map' = parked.wait_map
    /\ collision_map' = parked.collision_map
    /\ occupancy_map' = parked.occupancy_map
    /\ total_wait' = parked.total_wait
    /\ total_blocked' = parked.total_blocked
    /\ t' = parked.t
    /\ i' = parked.i
    /\ details' = parked.details
    /\ UNCHANGED <<H, W, obstacles, dist_cache, metrics>>
    /\ UNCHANGED <<parseVars, aggVars, bfsVars, expVars>>

\* The executing call is suspended and the other one resumes: the arguments
\* and locals (lines 128-151) change places, the grid stays.
Switch ==
    /\ parked' = Frame
    /\ paths' = parked.paths
    /\ goals' = parked.goals
    /\ pc' = parked.pc
    /\ err' = parked.err
    /\ reach_t' = parked.reach_t
    /\ dist_cache' = parked.dist_cache
    /\ wait_map' = parked.wait_map
    /\ collision_map' = parked.collision_map
    /\ occupancy_map' = parked.occupancy_map
    /\ total_wait' = parked.total_wait
    /\ total_blocked' = parked.total_blocked
    /\ t' = parked.t
    /\ i' = parked.i
    /\ details' = parked.details
    /\ UNCHANGED <<H, W, obstacles, metrics>>
    /\ UNCHANGED <<parseVars, aggVars, bfsVars, expVars>>

InterleavedNext ==
    \/ Start
    \/ OccStep
    \/ WaitStep
    \/ Return
    \/ Switch

InterleavedSpec == InterleavedInit /\ [][InterleavedNext]_vars

\* ----------------------------------------------------------- properties
\* The pre-goal stay steps on the cell c (as <<y, x>>).
WaitsAt(c) ==
    {ka \in PreGoalWaits : paths[ka[1]][ka[2]] = <<c[2], c[1]>>}

\* The visits of the cell c (as <<y, x>>) up to and including the first reach.
VisitsAt(c) ==
    {ka \in PreOrAtGoal : paths[ka[1]][ka[2]] = <<c[2], c[1]>>}

\* What a run computes from its own trajectory and goals and the grid: the
\* three maps and the details as functions of the inputs alone.
OwnResult ==
    /\ \A c \in Index(H, W) :
          /\ wait_map[c] = Cardinality(WaitsAt(c))
          /\ collision_map[c] = Cardinality(BlockedAt(c))
          /\ occupancy_map[c] = Cardinality(VisitsAt(c))
    /\ details.T = NumT
    /\ details.N = Len(goals)
    /\ details.reach_t = [ag \in Agents |-> ReachTime(ag)]
    /\ details.total_wait = Cardinality(PreGoalWaits)
    /\ details.total_blocked = NpSum(collision_map)

\* C26: runs are independent.  No step of a run changes the obstacle mask
\* or the grid size, and no step changes a trajectory or a goal list (they
\* only change places with the frame when the other run resumes); the memo
\* table of a call is empty before the call starts and then holds one BFS
\* field per distinct goal of that call, computed on the shared mask; and
\* whatever the interleaving, each run returns the maps and details that
\* follow from its own inputs.
C26_RunsIndependent ==
    /\ [][ /\ obstacles' = obstacles
           /\ H' = H
           /\ W' = W
           /\ \/ paths' = paths /\ goals' = goals /\ parked' = parked
              \/ parked' = Frame /\ Frame' = parked ]_vars
    /\ [](pc = "init" => dist_cache = <<>>)
    /\ [](pc \notin {"init", "error"} =>
            /\ DOMAIN dist_cache = {goals[k] : k \in 1 .. Len(goals)}
            /\ \A g \in DOMAIN dist_cache :
                  dist_cache[g] = bfs_dist(obstacles, g))
    /\ [](Computed => OwnResult)

\* One run has returned, with a unit of pressure on its map, while the other
\* is suspended between its occupancy loop and its wait loop; the two runs
\* have different goals.
C26_Witness ==
    /\ Computed
    /\ details.total_blocked = 1
    /\ parked.pc = "wait"
    /\ parked.goals # goals
    /\ NpSum(parked.occupancy_map) = 2
    /\ parked.dist_cache # dist_cache

\* ===================================================================
\* The exporter: export_one of src/scripts/04_export_heatmap_bin.py
\*
\* A float32 value is the pair <<hi, lo>> of the 16-bit halves of its bit
\* pattern; a float64 value is <<hi, lo, tail>>: the float32 it truncates to
\* and what lies beyond single precision (0: nothing, 1: less than half a
\* unit in the last place, 2: more than half).  An array is its dtype, ndim,
\* shape (h, w), memory order and buffer, as numpy holds it.  The host is
\* little-endian (tobytes writes the native byte order).  The directory
\* creation of line 62, the value statistics and aggregate_meta of the
\* sidecar and the final print are left out.
\* ===================================================================

Zero32 == <<0, 0>>
Log2_32 == <<16177, 29208>>         \* log1p(1.0), 0x3F317218
NaN32 == <<32704, 0>>               \* 0x7FC00000

Values32 == {Zero32, Log2_32, NaN32}

Values64 == {<<0, 0, 0>>, <<16177, 29208, 1>>, <<16177, 29208, 2>>}

\* The arrays np.load may return: float32 or float64, written in C or in
\* Fortran order, a row, a column or two rows of MaxDim values; and one
\* one-dimensional array.
Arrays ==
    {[dtype |-> "f4", ndim |-> 1, h |-> 1, w |-> 2, order |-> "C",
      data |-> <<Zero32, Log2_32>>]}
    \cup UNION {UNION {
            {[dtype |-> "f4", ndim |-> 2, h |-> hw[1], w |-> hw[2],
              order |-> o, data |-> d] :
                 d \in [1 .. hw[1] * hw[2] -> Values32]}
            \cup
            {[dtype |-> "f8", ndim |-> 2, h |-> hw[1], w |-> hw[2],
              order |-> o, data |-> d] :
                 d \in [1 .. hw[1] * hw[2] -> Values64]} :
          o \in {"C", "F"}} :
        hw \in {<<1, MaxDim>>, <<MaxDim, 1>>, <<2, MaxDim>>}}

\* A line of a map file, by what line 47-50 see of it: the word it starts
\* with and the integer its last token reads as (<<>>: not an integer).
HeaderLine(key, val) == [key |-> key, val |-> val]

\* Map files: pad lines that declare nothing ("type octile", comments),
\* then a height and a width line in either order, or a height line alone,
\* or a height line without a number before the width line.
MapFiles ==
    {[k \in 1 .. pad |-> HeaderLine("other", <<>>)] \o decl :
        pad \in {1, HeaderLines - 2, HeaderLines - 1, HeaderLines},
        decl \in UNION {
            { << HeaderLine("height", <<hw[1]>>), HeaderLine("width", <<hw[2]>>) >>,
              << HeaderLine("width", <<hw[2]>>), HeaderLine("height", <<hw[1]>>) >>,
              << HeaderLine("height", <<hw[1]>>) >>,
              << HeaderLine("height", <<>>), HeaderLine("width", <<hw[2]>>) >> } :
            hw \in {<<1, MaxDim>>, <<2, MaxDim>>}}}

\* A file of out_dir: who wrote it ("nobody": no such file) and its content.
NoFile == [by |-> "nobody", content |-> <<>>]

ExportInit ==
    /\ npy \in {<<>>} \cup Arrays
    /\ map_file \in {<<>>} \cup MapFiles
    /\ dest \in {[bin |-> NoFile, meta |-> NoFile],
                 [bin |-> [by |-> "earlier", content |-> <<0, 0, 0, 0>>],
                  meta |-> [by |-> "earlier", content |-> <<1, 1>>]]}
    /\ exp_p = <<>>
    /\ map_dims = <<>>
    /\ exp_pc = "start"
    /\ exp_err = "none"
    /\ HeatmapIdle
    /\ ParserIdle
    /\ AggregatorIdle
    /\ ParkedIdle
    /\ BfsIdle

\* a[y, x], through the memory order of the array
At(a, y, x) ==
    IF a.order = "C" THEN a.data[y * a.w + x + 1]
    ELSE a.data[x * a.h + y + 1]

\* The next float32 up in magnitude.
Up(v) == IF v[2] + 1 < Limb THEN <<v[1], v[2] + 1>> ELSE <<v[1] + 1, 0>>

\* exponent all ones, mantissa not zero
IsNaN(v) == (v[1] % 32768) \div 128 = 255 /\ (v[1] % 128 # 0 \/ v[2] # 0)

\* astype(np.float32) of one value: round to nearest.
AsFloat32(v, dtype) ==
    IF dtype = "f4" THEN v
    ELSE IF v[3] = 2 /\ ~IsNaN(v) THEN Up(<<v[1], v[2]>>)
    ELSE <<v[1], v[2]>>

\* flags["C_CONTIGUOUS"]
CContiguous(a) == a.order = "C" \/ a.h = 1 \/ a.w = 1

\* Fault variant of ensure_c_f32: the cast of lines 28-29 is missing.
ensure_c_f32_no_cast(a) ==
    IF ~CContiguous(a)
    THEN [a EXCEPT !.order = "C",
                   !.data = [k \in 1 .. a.h * a.w |->
                               At(a, (k - 1) \div a.w, (k - 1) % a.w)]]
    ELSE a

\* Lines 26-32: float32, then C order.
ensure_c_f32(a) ==
    LET b == IF a.dtype # "f4"
             THEN [a EXCEPT !.dtype = "f4",
                            !.data = [k \in DOMAIN a.data |->
                                        AsFloat32(a.data[k], a.dtype)]]
             ELSE a
    IN  IF ~CContiguous(b)
        THEN [b EXCEPT !.order = "C",
                       !.data = [k \in 1 .. b.h * b.w |->
                                   At(b, (k - 1) \div b.w, (k - 1) % b.w)]]
        ELSE b

\* The for loop of lines 45-52 from line k on, with the running h and w
\* (<<>>: None); <<>> for None, <<height, width>> for the dictionary.  A
\* height or width line whose last token is no integer raises inside the
\* try: None.
RECURSIVE ScanHeader(_, _, _, _)
ScanHeader(ls, k, hh, ww) ==
    IF k > Len(ls) THEN <<>>
    ELSE IF ls[k].key \in {"height", "width"} /\ ls[k].val = <<>> THEN <<>>
    ELSE LET h2 == IF ls[k].key = "height" THEN ls[k].val ELSE hh
             w2 == IF ls[k].key = "width" THEN ls[k].val ELSE ww
         IN  IF h2 # <<>> /\ w2 # <<>> THEN <<h2[1], w2[1]>>
             ELSE ScanHeader(ls, k + 1, h2, w2)

\* Lines 35-55; file <<>>: map_path does not exist.
parse_movingai_map_dims(file) ==
    IF file = <<>> THEN <<>>
    ELSE ScanHeader(SubSeq(file, 1, IF Len(file) < HeaderLines
                                    THEN Len(file) ELSE HeaderLines),
                    1, <<>>, <<>>)

\* Line 76.
DimsMismatch(dims, h, w) == dims[1] # h \/ dims[2] # w

\* Fault variant of ItemBytes: most significant byte first.
ItemBytes_big_endian(v, dtype) ==
    IF dtype = "f4"
    THEN <<v[1] \div 256, v[1] % 256, v[2] \div 256, v[2] % 256>>
    ELSE <<v[1] \div 256, v[1] % 256, v[2] \div 256, v[2] % 256, v[3], 0, 0, 0>>

\* The bytes of one item in memory: 4 for float32, 8 for float64, least
\* significant byte first.
ItemBytes(v, dtype) ==
    IF dtype = "f4"
    THEN <<v[2] % 256, v[2] \div 256, v[1] % 256, v[1] \div 256>>
    ELSE <<0, 0, 0, v[3], v[2] % 256, v[2] \div 256, v[1] % 256, v[1] \div 256>>

ItemSize(dtype) == IF dtype = "f4" THEN 4 ELSE 8

\* Line 88: p.tobytes(order="C"), the items in row-major order of [y, x].
ToBytes(a) ==
    [j \in 1 .. a.h * a.w * ItemSize(a.dtype) |->
        LET k == (j - 1) \div ItemSize(a.dtype)
        IN  ItemBytes(At(a, k \div a.w, k % a.w), a.dtype)
                [((j - 1) % ItemSize(a.dtype)) + 1]]

\* Line 119: np.fromfile(bin_path, dtype="<f4"), the whole items of the file.
FromFile(bytes) ==
    [k \in 1 .. Len(bytes) \div 4 |->
        <<bytes[4 * k - 1] + 256 * bytes[4 * k],
          bytes[4 * k - 3] + 256 * bytes[4 * k - 2]>>]

\* Line 122: raw.reshape((H, W))
Reshape(raw, h, w) ==
    [dtype |-> "f4", ndim |-> 2, h |-> h, w |-> w, order |-> "C", data |-> raw]

\* Line 124: np.allclose(p, p2, rtol=0, atol=0): every pair of items equal
\* as numbers; a NaN is close to nothing, +0.0 and -0.0 are equal.
AllClose(a, b) ==
    \A y \in 0 .. a.h - 1 : \A x \in 0 .. a.w - 1 :
        LET u == At(a, y, x)
            v == At(b, y, x)
        IN  /\ ~IsNaN(u)
            /\ ~IsNaN(v)
            /\ \/ u = v
               \/ u[1] % 32768 = 0 /\ u[2] = 0 /\ v[1] % 32768 = 0 /\ v[2] = 0

\* Lines 59-60.
ExpMissing ==
    /\ exp_pc = "start"
    /\ npy = <<>>
    /\ exp_pc' = "error"
    /\ exp_err' = "missing npy"
    /\ UNCHANGED <<npy, map_file, dest, exp_p, map_dims>>
    /\ UNCHANGED <<heatVars, parseVars, aggVars, parkVars, bfsVars>>

\* Lines 64-66.
ExpNot2D ==
    /\ exp_pc = "start"
    /\ npy # <<>>
    /\ npy.ndim # 2
    /\ exp_pc' = "error"
    /\ exp_err' = "p_raw must be 2D"
    /\ UNCHANGED <<npy, map_file, dest, exp_p, map_dims>>
    /\ UNCHANGED <<heatVars, parseVars, aggVars, parkVars, bfsVars>>

\* Lines 64-69.
ExpLoad ==
    /\ exp_pc = "start"
    /\ npy # <<>>
    /\ npy.ndim = 2
    /\ exp_p' = ensure_c_f32(npy)
    /\ exp_pc' = "check"
    /\ UNCHANGED <<npy, map_file, dest, map_dims, exp_err>>
    /\ UNCHANGED <<heatVars, parseVars, aggVars, parkVars, bfsVars>>

\* Lines 72-80: the header gives dimensions and they are not the field's.
ExpShapeMismatch ==
    /\ exp_pc = "check"
    /\ parse_movingai_map_dims(map_file) # <<>>
    /\ DimsMismatch(parse_movingai_map_dims(map_file), exp_p.h, exp_p.w)
    /\ map_dims' = parse_movingai_map_dims(map_file)
    /\ exp_pc' = "error"
    /\ exp_err' = "shape mismatch"
    /\ UNCHANGED <<npy, map_file, dest, exp_p>>
    /\ UNCHANGED <<heatVars, parseVars, aggVars, parkVars, bfsVars>>

\* Lines 72-116: no header dimensions, or matching ones; the binary and the
\* sidecar (shape and map_header of lines 98, 110-111) are written to out_dir.
ExpWrite ==
    /\ exp_pc = "check"
    /\ IF parse_movingai_map_dims(map_file) = <<>> THEN TRUE
       ELSE ~DimsMismatch(parse_movingai_map_dims(map_file), exp_p.h, exp_p.w)
    /\ map_dims' = parse_movingai_map_dims(map_file)
    /\ dest' = [bin  |-> [by |-> "this", content |-> ToBytes(exp_p)],
                meta |-> [by |-> "this",
                          content |-> <<exp_p.h, exp_p.w>>
                                         \o parse_movingai_map_dims(map_file)]]
    /\ exp_pc' = "verify"
    /\ UNCHANGED <<npy, map_file, exp_p, exp_err>>
    /\ UNCHANGED <<heatVars, parseVars, aggVars, parkVars, bfsVars>>

\* Lines 118-127: the read-back.
ExpVerify ==
    /\ exp_pc = "verify"
    /\ LET raw == FromFile(dest.bin.content)
       IN  IF Len(raw) # exp_p.h * exp_p.w
           THEN exp_pc' = "error" /\ exp_err' = "binary size mismatch"
           ELSE IF ~AllClose(exp_p, Reshape(raw, exp_p.h, exp_p.w))
           THEN exp_pc' = "error" /\ exp_err' = "roundtrip verification failed"
           ELSE exp_pc' = "done" /\ exp_err' = exp_err
    /\ UNCHANGED <<npy, map_file, dest, exp_p, map_dims>>
    /\ UNCHANGED <<heatVars, parseVars, aggVars, parkVars, bfsVars>>

ExportNext ==
    \/ ExpMissing
    \/ ExpNot2D
    \/ ExpLoad
    \/ ExpShapeMismatch
    \/ ExpWrite
    \/ ExpVerify

ExportSpec == ExportInit /\ [][ExportNext]_vars

\* ----------------------------------------------------------- properties
\* This call of export_one has written heatmap.f32.bin.
BinWritten == dest.bin.by = "this"

\* The cells [y, x] of the field of shape (h, w).
CellsOf(h, w) == (0 .. h - 1) \X (0 .. w - 1)

\* C21: the binary file export_one writes for an H x W field holds exactly
\* H*W*4 bytes, and the four bytes at value-offset y*W + x are the float32
\* value of cell [y, x] of the field (for a float32 input: of the input
\* array), whatever the dtype and memory order of the array loaded.
C21_BinaryIsRowMajorFloat32 ==
    BinWritten =>
        LET b == dest.bin.content
        IN  /\ Len(b) = npy.h * npy.w * 4
            /\ exp_p.h = npy.h
            /\ exp_p.w = npy.w
            /\ \A c \in CellsOf(npy.h, npy.w) :
                  LET o == 4 * (c[1] * npy.w + c[2])
                      v == <<b[o + 3] + 256 * b[o + 4], b[o + 1] + 256 * b[o + 2]>>
                  IN  /\ v = At(exp_p, c[1], c[2])
                      /\ npy.dtype = "f4" => v = At(npy, c[1], c[2])
                      /\ npy.dtype = "f8" =>
                            v \in {<<At(npy, c[1], c[2])[1], At(npy, c[1], c[2])[2]>>,
                                   Up(<<At(npy, c[1], c[2])[1], At(npy, c[1], c[2])[2]>>)}

\* A 2 x 2 float64 array in Fortran order whose transpose differs from it
\* was exported.
C21_Witness ==
    /\ exp_pc = "done"
    /\ npy.dtype = "f8"
    /\ npy.order = "F"
    /\ npy.h = 2
    /\ npy.w = 2
    /\ At(npy, 0, 1) # At(npy, 1, 0)
    /\ At(npy, 0, 1)[3] = 2

\* The heights and widths a map file declares with an integer.
DeclaredHeights ==
    {map_file[k].val[1] :
        k \in {j \in 1 .. Len(map_file) :
                  map_file[j].key = "height" /\ map_file[j].val # <<>>}}

DeclaredWidths ==
    {map_file[k].val[1] :
        k \in {j \in 1 .. Len(map_file) :
                  map_file[j].key = "width" /\ map_file[j].val # <<>>}}

\* C22: whenever a map file is given that declares a height and a width
\* and they differ from the shape of the field, the export fails with the
\* shape mismatch, and neither heatmap.f32.bin nor heatmap.meta.json has been
\* written or modified.
C22_DeclaredMismatchFails ==
    (/\ exp_pc \in {"done", "error"}
     /\ npy # <<>>
     /\ map_file # <<>>
     /\ DeclaredHeights # {}
     /\ DeclaredWidths # {}
     /\ (DeclaredHeights # {npy.h} \/ DeclaredWidths # {npy.w})) =>
        /\ exp_pc = "error"
        /\ npy.ndim = 2 => exp_err = "shape mismatch"
        /\ dest.bin.by # "this"
        /\ dest.meta.by # "this"

\* C23: when export_one ends with a verification error (wrong value count
\* or a round-tripped value that differs), no heatmap.f32.bin and no
\* heatmap.meta.json of that export remain in out_dir.
C23_FailedExportLeavesNoArtifact ==
    (exp_pc = "error"
        /\ exp_err \in {"binary size mismatch", "roundtrip verification failed"}) =>
        /\ dest.bin.by # "this"
        /\ dest.meta.by # "this"

\* The array holds no NaN (the model's values hold no infinity).
Finite(a) == \A k \in DOMAIN a.data : ~IsNaN(a.data[k])

\* C24: round trip.  For a finite-valued two-dimensional float32 array,
\* the binary export_one writes, read back as little-endian float32 and
\* reshaped to (H, W), is bit for bit the array written, and the built-in
\* verification accepts it.
C24_RoundTripBitIdentical ==
    (npy # <<>> /\ BinWritten /\ npy.dtype = "f4" /\ Finite(npy)) =>
        /\ exp_pc \in {"verify", "done"}
        /\ exp_err = "none"
        /\ Len(FromFile(dest.bin.content)) = npy.h * npy.w
        /\ \A c \in CellsOf(npy.h, npy.w) :
              At(Reshape(FromFile(dest.bin.content), npy.h, npy.w), c[1], c[2])
                 = At(npy, c[1], c[2])

\* A finite 2 x 2 float32 array in Fortran order, different from its
\* transpose, passed the verification.
C24_Witness ==
    /\ exp_pc = "done"
    /\ npy.dtype = "f4"
    /\ npy.order = "F"
    /\ npy.h = 2
    /\ npy.w = 2
    /\ Finite(npy)
    /\ At(npy, 0, 1) = Log2_32
    /\ At(npy, 1, 0) = Zero32

====
